---- MODULE Spec2Model ----
(***************************************************************************)
(* Model of the post service (src/unnamed/part_003) together with the      *)
(* profile edit of the user service (src/services/user-service/server.js): *)
(* the content store (MongoDB through Mongoose), the shared Redis cache,   *)
(* the socket.io broadcast and the request handlers, one action per        *)
(* external call (await) of a handler.                                     *)
(*                                                                         *)
(* A step of a request is: the pending external call takes effect, then    *)
(* the handler runs synchronously up to the next await (or its response).  *)
(* Requests in different slots interleave at these steps.                  *)
(*                                                                         *)
(* post.save() is Mongoose's: it sends only the changes made to the loaded *)
(* document. array.push becomes an atomic $push that increments __v and    *)
(* does not test it; assigning an array, and a push or pull below an array *)
(* index, become an update that requires the loaded __v; a scalar          *)
(* assignment becomes $set of that one path. An update that matches no     *)
(* document rejects (VersionError, DocumentNotFoundError).                 *)
(*                                                                         *)
(* The rate limiters of create, comment and like (20, 50 and 100 requests  *)
(* an hour) are outside the model: no run admits that many requests.       *)
(***************************************************************************)
EXTENDS Integers, Sequences, FiniteSets, TLC

\* ------------------------------------------------------------------ bounds

\* requests admitted in one run of the concurrent specification
MaxOps == 2
\* requests admitted in one run of the sequential specification
MaxSeqOps == 3
\* requests admitted in one run of the readers-and-writers specification
MaxRaceOps == 3
\* requests admitted in one run of the media-and-broadcast specification
MaxEdgeOps == 3
\* requests admitted in one run of the profile specification
MaxProfileOps == 3
\* requests admitted in one run of the two-post specification
MaxItemOps == 2
\* register requests admitted in one run of the auth specification
MaxAuthOps == 3
\* requests admitted in one run of the feed page specification
MaxViewOps == 2
MaxThreadOps == 3

\* ------------------------------------------------------------------ values

Users == {"u1", "u2"}
Slots == {1, 2}
SeqSlots == {1}

Undef == "undef"
Null == "null"
NoToken == "notoken"
BadToken == "badtoken"
Creds == Users \cup {NoToken, BadToken}

\* an identifier no document ever has
NoSuchId == 0

ContentKinds ==
  {"create", "delete", "update", "addComment", "addReply",
   "delComment", "delReply", "like", "unlike"}
ReadKinds == {"feed", "byOwner"}

\* request inputs
CreateTexts == {"a", Undef}
UpdateTexts == {"b", Undef}
CommentTexts == {"c", Undef}
ImageInputs == {Undef}
VideoInputs == {Undef}
NameInputs == {"n2"}
\* a user field a client puts in the body of an update
BodyUserInputs == {"u1"}
\* the sets of identities whose profile lookup fails during one assembly
LookupFailures == SUBSET Users

Max(a, b) == IF a >= b THEN a ELSE b

SeqToSet(s) == {s[i] : i \in 1..Len(s)}

\* ------------------------------------------------------------------ state

VARIABLES
  posts,      \* the Post collection: a set of documents
  profiles,   \* the User collection of the user service: identity -> firstName
  feedCache,  \* Redis keys posts:feed:<viewer>: <<>> or <<serialized payload>>
  userCache,  \* Redis keys user:<identity>: <<>> or <<serialized profile>>
  redisOpen,  \* redisClient?.isOpen
  req,        \* the request in each slot, with what it passed to io.emit
  nextId,     \* the next fresh ObjectId
  nops,       \* requests admitted so far
  pub,        \* history: post id -> revision of its latest published mutation
  lastFeed,   \* history: viewer -> the payload of its latest feed read
  accounts,   \* the User collection of the auth service: a set of accounts
  synced,     \* the identities with a document in the user service's collection
  view        \* the posts a connected feed page holds, if one is connected

vars ==
  <<posts, profiles, feedCache, userCache, redisOpen, req, nextId, nops, pub,
    lastFeed, accounts, synced, view>>

\* ------------------------------------------------------------------ documents

\* The accounts of the two identities, registered and synced before the run,
\* under the ObjectIds the auth service gave them.
SeedAccounts == {[_id |-> 101, email |-> "e1"], [_id |-> 102, email |-> "e2"]}

\* no feed page is connected
NoView == [on |-> FALSE, posts |-> <<>>]

\* The documents a store can hold when the service starts: what create by u1,
\* a comment by u2 and a reply by u1 leave behind (__v 2 after two pushes).
SeedReply == [_id |-> 3, user |-> "u1", text |-> "c"]
SeedComment == [_id |-> 2, user |-> "u2", text |-> "c", replies |-> <<SeedReply>>]
SeedPost ==
  [_id |-> 1, user |-> "u1", text |-> "a", image |-> Undef, youtubeUrl |-> Null,
   likes |-> <<>>, comments |-> <<SeedComment>>, createdAt |-> 1,
   v |-> 2, rev |-> 3]
SeedIds == {SeedPost._id, SeedComment._id, SeedReply._id}

\* A second post, as a create by u2 right after the seeded documents leaves it.
SecondPost ==
  [_id |-> 4, user |-> "u2", text |-> "a", image |-> Undef, youtubeUrl |-> Null,
   likes |-> <<>>, comments |-> <<>>, createdAt |-> 4, v |-> 0, rev |-> 1]

\* revision recorded for a published delete: above every revision of a run
DeletedRev ==
  MaxOps + MaxSeqOps + MaxRaceOps + MaxEdgeOps + MaxProfileOps + MaxItemOps
    + MaxAuthOps + MaxViewOps + MaxThreadOps + Cardinality(SeedIds) + 1

FindById(id) ==
  IF \E d \in posts : d._id = id
  THEN <<CHOOSE d \in posts : d._id = id>>
  ELSE <<>>

IndexOfId(s, id) ==
  IF \E i \in 1..Len(s) : s[i]._id = id
  THEN CHOOSE i \in 1..Len(s) : s[i]._id = id
  ELSE 0

RemoveAt(s, i) == SubSeq(s, 1, i - 1) \o SubSeq(s, i + 1, Len(s))

RemoveId(s, id) == SelectSeq(s, LAMBDA e : e._id # id)

\* a find that sorts oldest first
RECURSIVE SortAsc(_)
SortAsc(S) ==
  IF S = {} THEN <<>>
  ELSE LET d == CHOOSE x \in S : \A y \in S : x.createdAt <= y.createdAt
       IN <<d>> \o SortAsc(S \ {d})

\* Post.find(filter).sort({ createdAt: -1 })
RECURSIVE SortDesc(_)
SortDesc(S) ==
  IF S = {} THEN <<>>
  ELSE LET d == CHOOSE x \in S : \A y \in S : y.createdAt <= x.createdAt
       IN <<d>> \o SortDesc(S \ {d})

\* extractYouTubeId: the video id of a recognized link, or Null
extractYouTubeId(url) ==
  CASE url = "watch?v=A" -> "A"
    [] url = "youtu.be/A" -> "A"
    [] url = "embed/A" -> "A"
    [] url = "v/A" -> "A"
    [] OTHER -> Null

\* a handler that stores the link as it was supplied
UnvalidatedYoutubeUrl(url) == IF url = Undef THEN Null ELSE url

\* the youtubeUrl a create or update stores for a supplied link
validatedYoutubeUrl(url) ==
  IF url \notin {Undef, Null, "", " "} /\ extractYouTubeId(url) # Null
  THEN "embed/" \o extractYouTubeId(url)
  ELSE Null

\* ------------------------------------------------------------------ profiles

BareUser(u) == [kind |-> "id", _id |-> u, firstName |-> Undef]
ProfileOf(u) == [kind |-> "profile", _id |-> u, firstName |-> profiles[u]]
PlaceholderUser(u) == [kind |-> "placeholder", _id |-> u, firstName |-> Undef]
NullUser == [kind |-> "null", _id |-> Null, firstName |-> Undef]

\* a parse that loses the payload
ParseEmpty(s) == <<>>

\* JSON.stringify / JSON.parse of a payload: a property that is undefined is
\* absent from the text, as it is absent (Undef) from the document
Stringify(p) == [json |-> p]
Parse(s) == s.json

\* ------------------------------------------------------------------ requests

IdleReq ==
  [kind |-> "none", cred |-> NoToken, user |-> Null, postId |-> NoSuchId,
   commentId |-> NoSuchId, replyId |-> NoSuchId, ownerId |-> Null,
   text |-> Undef, image |-> Undef, youtubeUrl |-> Undef, bodyUser |-> Undef,
   firstName |-> Undef, pc |-> "idle", doc |-> <<>>, dirty |-> {}, keys |-> {},
   status |-> 0, body |-> [message |-> "", data |-> <<>>], trace |-> <<>>,
   floor |-> <<>>, wrote |-> 0, emitted |-> <<>>, emitThrows |-> FALSE,
   edited |-> {}, lastName |-> Undef, email |-> Undef, password |-> Undef,
   known |-> {}]

\* res.status(status).json(...): the request ends
Respond(rq, status, message, data) ==
  [rq EXCEPT !.pc = "done", !.status = status,
             !.body = [message |-> message, data |-> data],
             !.trace = Append(@, "resp"),
             !.doc = <<>>, !.dirty = {}, !.keys = {}]

ServerError(rq) == Respond(rq, 500, "Server error", <<>>)

LookupKinds == {"create", "update", "addComment", "addReply"}

\* the first external call a handler issues once protect has called next()
FirstCall(rq) ==
  CASE rq.kind = "create" -> "insert"
    [] rq.kind = "feed" -> IF redisOpen THEN "cacheGet" ELSE "find"
    [] rq.kind = "profileEdit" -> "pfind"
    [] rq.kind = "me" -> IF redisOpen THEN "mget" ELSE "mfind"
    [] OTHER -> "find"

\* new Post({ user, text, image, youtubeUrl: validatedYoutubeUrl }) of create
NewPost(rq) ==
  [_id |-> nextId, user |-> rq.user, text |-> rq.text, image |-> rq.image,
   youtubeUrl |-> validatedYoutubeUrl(rq.youtubeUrl), likes |-> <<>>,
   comments |-> <<>>, createdAt |-> nextId, v |-> 0, rev |-> 1]

\* a protect that goes on when the auth service rejects the token
protectUnverified(rq) ==
  IF rq.cred = NoToken THEN Respond(rq, 401, "No token provided", <<>>)
  ELSE LET q == [rq EXCEPT !.user = IF rq.cred \in Users THEN rq.cred ELSE "u1"] IN
       [q EXCEPT !.pc = FirstCall(q),
                 !.doc = IF q.kind = "create" THEN <<NewPost(q)>> ELSE <<>>]

\* protect: 401 without a token or when the auth service rejects it, else
\* req.user is the verified identity and the handler starts
protect(rq) ==
  IF rq.cred = NoToken THEN Respond(rq, 401, "No token provided", <<>>)
  ELSE IF rq.cred = BadToken THEN Respond(rq, 401, "Unauthorized", <<>>)
  ELSE LET q == [rq EXCEPT !.user = rq.cred] IN
       [q EXCEPT !.pc = FirstCall(q),
                 !.doc = IF q.kind = "create" THEN <<NewPost(q)>> ELSE <<>>]

\* history: the identities whose profile edit has been answered (the profile
\* has the edited name and no edit of it is between its save and its answer)
Edited ==
  {u \in Users :
     /\ profiles[u] \in NameInputs
     /\ \A r \in Slots :
          ~(/\ req[r].kind = "profileEdit" /\ req[r].user = u
            /\ req[r].pc \in {"pdelUser", "pkeys", "pdelFeed", "prefetch"})}

\* no response is being delivered
Ready == \A r \in Slots : req[r].pc # "done"

\* The response of the request in slot r has been delivered: the slot is free.
Close(r) ==
  /\ req[r].pc = "done"
  /\ req' = [req EXCEPT ![r] = IdleReq]
  /\ UNCHANGED <<posts, profiles, feedCache, userCache, redisOpen,
                 nextId, nops, pub, lastFeed, accounts,
                 synced, view>>

\* One of the requests of the menu arrives in a free slot and runs through
\* protect.
Arrive(r, menu, limit) ==
  /\ Ready
  /\ req[r].pc = "idle"
  /\ \A q \in Slots : q < r => req[q].pc # "idle"
  /\ nops < limit
  /\ nops' = nops + 1
  /\ \E rq0 \in menu :
       /\ req' = [req EXCEPT ![r] =
                    protect([rq0 EXCEPT !.floor = pub, !.edited = Edited])]
       /\ nextId' = IF rq0.kind = "create" /\ rq0.cred \in Users
                    THEN nextId + 1 ELSE nextId
  /\ UNCHANGED <<posts, profiles, feedCache, userCache, redisOpen,
                 pub, lastFeed, accounts, synced, view>>

\* ------------------------------------------------------------------ findById

\* a pushed comment that does not take the text of the request
NewCommentOther(rq) ==
  [_id |-> nextId, user |-> rq.user, text |-> "other", replies |-> <<>>]

\* a new subdocument pushed by add comment / add reply
NewComment(rq) ==
  [_id |-> nextId, user |-> rq.user, text |-> rq.text, replies |-> <<>>]
NewReply(rq) == [_id |-> nextId, user |-> rq.user, text |-> rq.text]

ToSave(rq, doc, dirty) ==
  [rq EXCEPT !.pc = "save", !.doc = <<doc>>, !.dirty = dirty]

\* an includes that never finds the identity
NeverLiked(d, u) == FALSE

\* post.likes.includes(req.user._id)
AlreadyLiked(d, u) == u \in SeqToSet(d.likes)

\* like handler after findById
LikeLoaded(rq, found) ==
  IF found = <<>> THEN Respond(rq, 404, "Post not found", <<>>)
  ELSE IF AlreadyLiked(found[1], rq.user)
  THEN Respond(rq, 400, "Post already liked", <<>>)
  ELSE ToSave(rq, [found[1] EXCEPT !.likes = Append(@, rq.user)], {"likes"})

\* a filter that drops the latest like whoever gave it
DropLast(likes, u) == SubSeq(likes, 1, Len(likes) - 1)

\* post.likes.filter(id => id.toString() !== req.user._id.toString())
FilterLikes(likes, u) == SelectSeq(likes, LAMBDA id : id # u)

\* unlike handler after findById
UnlikeLoaded(rq, found) ==
  IF found = <<>> THEN Respond(rq, 404, "Post not found", <<>>)
  ELSE LET kept == FilterLikes(found[1].likes, rq.user) IN
       ToSave(rq, [found[1] EXCEPT !.likes = kept],
              IF kept = found[1].likes THEN {} ELSE {"likes"})

\* an ownership check against the user field of the request body
NotClaimedOwner(d, rq) == d.user # rq.bodyUser

\* post.user.toString() !== req.user._id.toString()
NotOwner(d, rq) == d.user # rq.user

\* a delete handler without the existence check: post.user of null throws
DeleteLoadedUnchecked(rq, found) ==
  IF found = <<>> THEN ServerError(rq)
  ELSE IF NotOwner(found[1], rq)
  THEN Respond(rq, 403, "Not authorized to delete this post", <<>>)
  ELSE ToSave(rq, found[1], {})

\* delete handler after findById
DeleteLoaded(rq, found) ==
  IF found = <<>> THEN Respond(rq, 404, "Post not found", <<>>)
  ELSE IF NotOwner(found[1], rq)
  THEN Respond(rq, 403, "Not authorized to delete this post", <<>>)
  ELSE ToSave(rq, found[1], {})

\* an update that assigns image and youtubeUrl whether supplied or not
UpdateLoadedAll(rq, found) ==
  IF found = <<>> THEN Respond(rq, 404, "Post not found", <<>>)
  ELSE IF NotOwner(found[1], rq)
  THEN Respond(rq, 403, "Not authorized to update this post", <<>>)
  ELSE LET d == found[1]
           nd == [d EXCEPT
                    !.text = IF rq.text # Undef THEN rq.text ELSE @,
                    !.image = rq.image,
                    !.youtubeUrl = validatedYoutubeUrl(rq.youtubeUrl)]
       IN ToSave(rq, nd,
                 {f \in {"text", "image", "youtubeUrl"} : nd[f] # d[f]})

\* update handler after findById: only the supplied fields are assigned
UpdateLoaded(rq, found) ==
  IF found = <<>> THEN Respond(rq, 404, "Post not found", <<>>)
  ELSE IF NotOwner(found[1], rq)
  THEN Respond(rq, 403, "Not authorized to update this post", <<>>)
  ELSE LET d == found[1]
           yt == validatedYoutubeUrl(rq.youtubeUrl)
           nd == [d EXCEPT
                    !.text = IF rq.text # Undef THEN rq.text ELSE @,
                    !.image = IF rq.image # Undef THEN rq.image ELSE @,
                    !.youtubeUrl = IF rq.youtubeUrl # Undef THEN yt ELSE @]
       IN ToSave(rq, nd,
                 {f \in {"text", "image", "youtubeUrl"} : nd[f] # d[f]})

\* add comment handler after findById
AddCommentLoaded(rq, found) ==
  IF found = <<>> THEN Respond(rq, 404, "Post not found", <<>>)
  ELSE ToSave(rq, [found[1] EXCEPT !.comments = Append(@, NewComment(rq))],
              {"comments"})

\* add reply handler after findById
AddReplyLoaded(rq, found) ==
  IF found = <<>> THEN Respond(rq, 404, "Post not found", <<>>)
  ELSE LET i == IndexOfId(found[1].comments, rq.commentId) IN
       IF i = 0 THEN Respond(rq, 404, "Comment not found", <<>>)
       ELSE ToSave(rq,
                   [found[1] EXCEPT !.comments[i].replies = Append(@, NewReply(rq))],
                   {"replies"})

\* a delete comment handler that checks the owner of the post
DelCommentByPostOwner(rq, found) ==
  IF found = <<>> THEN Respond(rq, 404, "Post not found", <<>>)
  ELSE LET i == IndexOfId(found[1].comments, rq.commentId) IN
       IF i = 0 THEN Respond(rq, 404, "Comment not found", <<>>)
       ELSE IF found[1].user # rq.user
       THEN Respond(rq, 403, "Not authorized to delete this comment", <<>>)
       ELSE ToSave(rq, [found[1] EXCEPT !.comments = RemoveAt(@, i)],
                   {"comments"})

\* delete comment handler after findById
DelCommentLoaded(rq, found) ==
  IF found = <<>> THEN Respond(rq, 404, "Post not found", <<>>)
  ELSE LET i == IndexOfId(found[1].comments, rq.commentId) IN
       IF i = 0 THEN Respond(rq, 404, "Comment not found", <<>>)
       ELSE IF found[1].comments[i].user # rq.user
       THEN Respond(rq, 403, "Not authorized to delete this comment", <<>>)
       ELSE ToSave(rq, [found[1] EXCEPT !.comments = RemoveAt(@, i)],
                   {"comments"})

\* delete reply handler after findById
DelReplyLoaded(rq, found) ==
  IF found = <<>> THEN Respond(rq, 404, "Post not found", <<>>)
  ELSE LET i == IndexOfId(found[1].comments, rq.commentId) IN
       IF i = 0 THEN Respond(rq, 404, "Comment not found", <<>>)
       ELSE LET j == IndexOfId(found[1].comments[i].replies, rq.replyId) IN
            IF j = 0 THEN Respond(rq, 404, "Reply not found", <<>>)
            ELSE IF found[1].comments[i].replies[j].user # rq.user
            THEN Respond(rq, 403, "Not authorized to delete this reply", <<>>)
            ELSE ToSave(rq,
                        [found[1] EXCEPT !.comments[i].replies = RemoveAt(@, j)],
                        {"replies"})

Loaded(rq, found) ==
  CASE rq.kind = "like" -> LikeLoaded(rq, found)
    [] rq.kind = "unlike" -> UnlikeLoaded(rq, found)
    [] rq.kind = "delete" -> DeleteLoaded(rq, found)
    [] rq.kind = "update" -> UpdateLoaded(rq, found)
    [] rq.kind = "addComment" -> AddCommentLoaded(rq, found)
    [] rq.kind = "addReply" -> AddReplyLoaded(rq, found)
    [] rq.kind = "delComment" -> DelCommentLoaded(rq, found)
    [] rq.kind = "delReply" -> DelReplyLoaded(rq, found)

\* Post.findById answers a mutation handler, which checks, changes its copy
\* and calls save (or responds with the error).
FindStep(r) ==
  /\ Ready
  /\ req[r].pc = "find"
  /\ req[r].kind \in ContentKinds
  /\ req' = [req EXCEPT ![r] = Loaded(req[r], FindById(req[r].postId))]
  /\ nextId' = IF req[r].kind \in {"addComment", "addReply"}
               THEN nextId + 1 ELSE nextId
  /\ UNCHANGED <<posts, profiles, feedCache, userCache, redisOpen,
                 nops, pub, lastFeed, accounts, synced, view>>

\* ------------------------------------------------------------------ save

\* a write that leaves only the written document in the collection
WrittenAlone(old, new) == [ok |-> TRUE, posts |-> {new}, rev |-> new.rev]

Written(old, new) ==
  [ok |-> TRUE, posts |-> (posts \ {old}) \cup {new}, rev |-> new.rev]
Unwritten(cur) == [ok |-> TRUE, posts |-> posts, rev |-> cur.rev]
\* a rejected save that the handler takes for an answer
RejectionIgnored == [ok |-> TRUE, posts |-> posts, rev |-> 0]

Rejected == [ok |-> FALSE, posts |-> posts, rev |-> 0]

\* a required String path is missing or empty: save rejects before any write
Invalid(text) == text \in {Undef, Null, ""}

\* Post.create: validate, then insert
CreateSave(rq) ==
  IF Invalid(rq.doc[1].text) THEN Rejected
  ELSE [ok |-> TRUE, posts |-> posts \cup {rq.doc[1]}, rev |-> rq.doc[1].rev]

\* save after likes.push: $push, __v incremented and not tested
LikeSave(rq, cur) ==
  IF cur = <<>> THEN Rejected
  ELSE Written(cur[1], [cur[1] EXCEPT !.likes = Append(@, rq.user),
                                      !.v = @ + 1, !.rev = @ + 1])

\* save after likes was assigned: nothing to send when the array is unchanged,
\* else $set of the whole array, which requires the loaded __v
UnlikeSave(rq, cur) ==
  IF cur = <<>> THEN Rejected
  ELSE IF rq.dirty = {} THEN Unwritten(cur[1])
  ELSE IF cur[1].v # rq.doc[1].v THEN Rejected
  ELSE Written(cur[1], [cur[1] EXCEPT !.likes = rq.doc[1].likes,
                                      !.v = @ + 1, !.rev = @ + 1])

\* save after the scalar assignments of update: $set of the changed paths
UpdateSave(rq, cur) ==
  IF Invalid(rq.doc[1].text) THEN Rejected
  ELSE IF cur = <<>> THEN Rejected
  ELSE IF rq.dirty = {} THEN Unwritten(cur[1])
  ELSE Written(cur[1],
         [cur[1] EXCEPT
            !.text = IF "text" \in rq.dirty THEN rq.doc[1].text ELSE @,
            !.image = IF "image" \in rq.dirty THEN rq.doc[1].image ELSE @,
            !.youtubeUrl =
               IF "youtubeUrl" \in rq.dirty THEN rq.doc[1].youtubeUrl ELSE @,
            !.rev = @ + 1])

\* Post.findByIdAndDelete: removes the document if it is there
DeleteSave(rq, cur) ==
  [ok |-> TRUE, posts |-> {d \in posts : d._id # rq.postId},
   rev |-> DeletedRev]

\* a save of a pushed comment that inserts the document when it is gone
AddCommentUpsert(rq, cur) ==
  IF cur = <<>>
  THEN [ok |-> TRUE, posts |-> posts \cup {rq.doc[1]}, rev |-> rq.doc[1].rev + 1]
  ELSE Written(cur[1],
         [cur[1] EXCEPT
            !.comments = Append(@, rq.doc[1].comments[Len(rq.doc[1].comments)]),
            !.v = @ + 1, !.rev = @ + 1])

\* a save of a pushed comment that writes the whole comments array of the
\* loaded copy
AddCommentOverwrite(rq, cur) ==
  IF cur = <<>> THEN Rejected
  ELSE Written(cur[1], [cur[1] EXCEPT !.comments = rq.doc[1].comments,
                                      !.v = @ + 1, !.rev = @ + 1])

\* save after comments.push: $push, __v incremented and not tested
AddCommentSave(rq, cur) ==
  LET c == rq.doc[1].comments[Len(rq.doc[1].comments)] IN
  IF Invalid(c.text) THEN Rejected
  ELSE IF cur = <<>> THEN Rejected
  ELSE Written(cur[1], [cur[1] EXCEPT !.comments = Append(@, c),
                                      !.v = @ + 1, !.rev = @ + 1])

\* save after comments[i].replies.push: $push below an index, requires the
\* loaded __v
AddReplySave(rq, cur) ==
  LET i == IndexOfId(rq.doc[1].comments, rq.commentId)
      rs == rq.doc[1].comments[i].replies
  IN IF Invalid(rs[Len(rs)].text) THEN Rejected
     ELSE IF cur = <<>> THEN Rejected
     ELSE IF cur[1].v # rq.doc[1].v THEN Rejected
     ELSE Written(cur[1],
            [cur[1] EXCEPT !.comments[i].replies = Append(@, rs[Len(rs)]),
                           !.v = @ + 1, !.rev = @ + 1])

\* save after comment.deleteOne(): $pull by _id, __v incremented and not tested
DelCommentSave(rq, cur) ==
  IF cur = <<>> THEN Rejected
  ELSE Written(cur[1], [cur[1] EXCEPT !.comments = RemoveId(@, rq.commentId),
                                      !.v = @ + 1, !.rev = @ + 1])

\* save after reply.deleteOne(): $pull below an index, requires the loaded __v
DelReplySave(rq, cur) ==
  IF cur = <<>> THEN Rejected
  ELSE IF cur[1].v # rq.doc[1].v THEN Rejected
  ELSE LET i == IndexOfId(cur[1].comments, rq.commentId) IN
       Written(cur[1],
         [cur[1] EXCEPT !.comments[i].replies = RemoveId(@, rq.replyId),
                        !.v = @ + 1, !.rev = @ + 1])

SaveResult(rq) ==
  LET cur == FindById(rq.postId) IN
  CASE rq.kind = "create" -> CreateSave(rq)
    [] rq.kind = "like" -> LikeSave(rq, cur)
    [] rq.kind = "unlike" -> UnlikeSave(rq, cur)
    [] rq.kind = "update" -> UpdateSave(rq, cur)
    [] rq.kind = "delete" -> DeleteSave(rq, cur)
    [] rq.kind = "addComment" -> AddCommentSave(rq, cur)
    [] rq.kind = "addReply" -> AddReplySave(rq, cur)
    [] rq.kind = "delComment" -> DelCommentSave(rq, cur)
    [] rq.kind = "delReply" -> DelReplySave(rq, cur)

\* ------------------------------------------------------------------ payloads

\* toObject(): the document as plain data, owners still bare identities
ToObject(d) ==
  [d EXCEPT
     !.user = BareUser(@),
     !.comments =
        [i \in 1..Len(@) |->
           [@[i] EXCEPT
              !.user = BareUser(@),
              !.replies = [j \in 1..Len(@) |-> [@[j] EXCEPT !.user = BareUser(@)]]]]]

\* GET <user service>/:userId with the placeholder { _id } of the catch
Resolve(u, F) == IF u \in F THEN PlaceholderUser(u) ELSE ProfileOf(u)

\* the post:created payload of create
PostWithUser(d, F) == [ToObject(d) EXCEPT !.user = Resolve(d.user, F)]

\* the post:updated payload and response of update: post, comments and replies
UpdatedPost(d, F) ==
  [ToObject(d) EXCEPT
     !.user = Resolve(d.user, F),
     !.comments =
        [i \in 1..Len(@) |->
           [@[i] EXCEPT
              !.user = Resolve(d.comments[i].user, F),
              !.replies =
                 [j \in 1..Len(@) |->
                    [@[j] EXCEPT
                       !.user = Resolve(d.comments[i].replies[j].user, F)]]]]]

Event(type, postId, commentId, replyId, data) ==
  [type |-> type, postId |-> postId, commentId |-> commentId,
   replyId |-> replyId, data |-> data]

Emitted(rq) == [rq EXCEPT !.trace = Append(@, "emit")]

\* What a mutation handler does once clearCache has returned and its profile
\* lookups (F: the identities whose lookup failed) are answered: io.emit, then
\* the response. Gives the finished request and the emitted events.
Finish(rq, F) ==
  LET d == rq.doc[1]
      e == Emitted(rq)
  IN
  CASE rq.kind = "create" ->
         [rq |-> Respond(e, 201, "", <<ToObject(d)>>),
          ev |-> <<Event("post:created", d._id, NoSuchId, NoSuchId,
                         <<PostWithUser(d, F)>>)>>]
    [] rq.kind = "update" ->
         [rq |-> Respond(e, 200, "", <<UpdatedPost(d, F)>>),
          ev |-> <<Event("post:updated", d._id, NoSuchId, NoSuchId,
                         <<UpdatedPost(d, F)>>)>>]
    [] rq.kind = "delete" ->
         [rq |-> Respond(e, 200, "Post deleted successfully", <<>>),
          ev |-> <<Event("post:deleted", rq.postId, NoSuchId, NoSuchId, <<>>)>>]
    [] rq.kind = "addComment" ->
         LET c == [ToObject(d).comments[Len(d.comments)]
                     EXCEPT !.user = Resolve(rq.user, F)] IN
         [rq |-> Respond(e, 201, "", <<c>>),
          ev |-> <<Event("comment:added", d._id, NoSuchId, NoSuchId, <<c>>)>>]
    [] rq.kind = "addReply" ->
         LET i == IndexOfId(d.comments, rq.commentId)
             rs == ToObject(d).comments[i].replies
             y == [rs[Len(rs)] EXCEPT !.user = Resolve(rq.user, F)] IN
         [rq |-> Respond(e, 201, "", <<y>>),
          ev |-> <<Event("reply:added", d._id, rq.commentId, NoSuchId, <<y>>)>>]
    [] rq.kind = "delComment" ->
         [rq |-> Respond(e, 200, "Comment deleted", <<>>),
          ev |-> <<Event("comment:deleted", rq.postId, rq.commentId, NoSuchId,
                         <<>>)>>]
    [] rq.kind = "delReply" ->
         [rq |-> Respond(e, 200, "Reply deleted", <<>>),
          ev |-> <<Event("reply:deleted", rq.postId, rq.commentId, rq.replyId,
                         <<>>)>>]
    [] rq.kind = "like" ->
         [rq |-> Respond(e, 200, "Post liked", <<Len(d.likes)>>),
          ev |-> <<Event("post:liked", d._id, NoSuchId, NoSuchId, d.likes)>>]
    [] rq.kind = "unlike" ->
         [rq |-> Respond(e, 200, "Post unliked", <<Len(d.likes)>>),
          ev |-> <<Event("post:unliked", d._id, NoSuchId, NoSuchId, d.likes)>>]

\* socket.on("comment:added") of a page: the comment of the event is appended
\* to the comments of the post the event names in the posts the page holds;
\* nothing is fetched
OnCommentAdded(list, ev) ==
  [i \in 1..Len(list) |->
     IF list[i]._id = ev.postId
     THEN [list[i] EXCEPT !.comments = @ \o ev.data]
     ELSE list[i]]

\* socket.on("post:created"): the post is put first unless its id is there
OnPostCreated(list, ev) ==
  IF \E i \in 1..Len(list) : list[i]._id = ev.postId THEN list
  ELSE ev.data \o list

\* socket.on("post:liked") and socket.on("post:unliked"): the likes of the
\* post are replaced by those of the event
OnLikes(list, ev) ==
  [i \in 1..Len(list) |->
     IF list[i]._id = ev.postId THEN [list[i] EXCEPT !.likes = ev.data]
     ELSE list[i]]

\* socket.on("reply:added"): the reply is appended under the comment
OnReplyAdded(list, ev) ==
  [i \in 1..Len(list) |->
     IF list[i]._id = ev.postId
     THEN [list[i] EXCEPT !.comments =
             [j \in 1..Len(@) |->
                IF @[j]._id = ev.commentId
                THEN [@[j] EXCEPT !.replies = @ \o ev.data]
                ELSE @[j]]]
     ELSE list[i]]

\* socket.on("comment:deleted"): the comment is filtered out
OnCommentDeleted(list, ev) ==
  [i \in 1..Len(list) |->
     IF list[i]._id = ev.postId
     THEN [list[i] EXCEPT !.comments = RemoveId(@, ev.commentId)]
     ELSE list[i]]

\* socket.on("reply:deleted"): the reply is filtered out of the comment
OnReplyDeleted(list, ev) ==
  [i \in 1..Len(list) |->
     IF list[i]._id = ev.postId
     THEN [list[i] EXCEPT !.comments =
             [j \in 1..Len(@) |->
                IF @[j]._id = ev.commentId
                THEN [@[j] EXCEPT !.replies = RemoveId(@, ev.replyId)]
                ELSE @[j]]]
     ELSE list[i]]

\* socket.on("post:deleted"): the post is filtered out
OnPostDeleted(list, ev) == RemoveId(list, ev.postId)

\* socket.on("post:updated"): the post is replaced by the one of the event
OnPostUpdated(list, ev) ==
  [i \in 1..Len(list) |->
     IF list[i]._id = ev.postId THEN ev.data[1] ELSE list[i]]

\* the listener of the feed page for the event
OnEvent(list, ev) ==
  CASE ev.type = "post:created" -> OnPostCreated(list, ev)
    [] ev.type \in {"post:liked", "post:unliked"} -> OnLikes(list, ev)
    [] ev.type = "comment:added" -> OnCommentAdded(list, ev)
    [] ev.type = "reply:added" -> OnReplyAdded(list, ev)
    [] ev.type = "comment:deleted" -> OnCommentDeleted(list, ev)
    [] ev.type = "reply:deleted" -> OnReplyDeleted(list, ev)
    [] ev.type = "post:deleted" -> OnPostDeleted(list, ev)
    [] ev.type = "post:updated" -> OnPostUpdated(list, ev)

\* io.emit reaches the connected feed page, whose listener runs
Delivered(v, evs) ==
  IF v.on /\ evs # <<>> THEN [v EXCEPT !.posts = OnEvent(@, evs[1])] ELSE v

\* ------------------------------------------------------------------ history

NoFeed == [body |-> <<>>, quiet |-> FALSE]

TargetId(rq) == IF rq.kind = "create" THEN rq.doc[1]._id ELSE rq.postId

\* the published revision of the post a finished mutation wrote
PubAfter(rq) ==
  LET id == TargetId(rq)
      old == IF id \in DOMAIN pub THEN pub[id] ELSE 0
  IN (id :> Max(old, rq.wrote)) @@ pub

\* ------------------------------------------------------------------ clearCache

\* io.emit and the response of a mutation; when io.emit throws (emitThrows,
\* fixed for the request as it arrives) the catch of the handler answers 500
Publish(r, rq, F) ==
  /\ req' = [req EXCEPT ![r] =
               IF rq.emitThrows THEN ServerError(rq)
               ELSE [Finish(rq, F).rq EXCEPT !.emitted = Finish(rq, F).ev]]
  /\ pub' = PubAfter(rq)
  /\ lastFeed' = [v \in Users |-> NoFeed]
  /\ view' = IF rq.emitThrows THEN view ELSE Delivered(view, Finish(rq, F).ev)

\* a handler that emits and responds without calling clearCache
SkipClear(r, rq) == Publish(r, rq, {})

\* clearCache has returned: create, update, add comment and add reply look
\* profiles up before they emit, the other handlers emit and respond at once
EndClear(r, rq) ==
  LET q == [rq EXCEPT !.trace = Append(@, "clear"), !.keys = {}] IN
  IF q.kind \in LookupKinds
  THEN /\ req' = [req EXCEPT ![r] = [q EXCEPT !.pc = "lookup"]]
       /\ UNCHANGED <<pub, lastFeed, view>>
  ELSE Publish(r, q, {})

\* clearCache('posts:*') is called: with Redis open it asks for the keys,
\* otherwise it returns at once
StartClear(r, rq) ==
  IF redisOpen
  THEN /\ req' = [req EXCEPT ![r] = [rq EXCEPT !.pc = "keys"]]
       /\ UNCHANGED <<pub, lastFeed, view>>
  ELSE EndClear(r, rq)

\* The store answers Post.create, post.save or findByIdAndDelete.
SaveStep(r) ==
  LET rq == req[r]
      res == SaveResult(rq)
  IN
  /\ Ready
  /\ rq.pc \in {"insert", "save"}
  /\ rq.kind \in ContentKinds
  /\ IF res.ok
     THEN /\ posts' = res.posts
          /\ StartClear(r, [rq EXCEPT !.trace = Append(@, "write"),
                                      !.wrote = res.rev])
     ELSE /\ req' = [req EXCEPT ![r] = ServerError(rq)]
          /\ UNCHANGED <<posts, pub, lastFeed, view>>
  /\ UNCHANGED <<profiles, feedCache, userCache, redisOpen,
                 nextId, nops, accounts, synced>>

\* a clearCache that lets the error of redisClient.keys reach the handler
KeysStepThrows(r, fail) ==
  LET rq == req[r]
      keys == {v \in Users : feedCache[v] # <<>>}
  IN
  /\ Ready
  /\ rq.pc = "keys"
  /\ rq.kind \in ContentKinds
  /\ IF fail
     THEN /\ req' = [req EXCEPT ![r] = ServerError(rq)]
          /\ UNCHANGED <<pub, lastFeed, view>>
     ELSE IF keys = {}
     THEN EndClear(r, rq)
     ELSE /\ req' = [req EXCEPT ![r] = [rq EXCEPT !.pc = "del", !.keys = keys]]
          /\ UNCHANGED <<pub, lastFeed, view>>
  /\ UNCHANGED <<posts, profiles, feedCache, userCache, redisOpen, nextId,
                 nops, accounts, synced>>

\* redisClient.keys('posts:*') answers (fail: it threw, which clearCache logs)
KeysStep(r, fail) ==
  LET rq == req[r]
      keys == {v \in Users : feedCache[v] # <<>>}
  IN
  /\ Ready
  /\ rq.pc = "keys"
  /\ rq.kind \in ContentKinds
  /\ IF fail \/ keys = {}
     THEN EndClear(r, rq)
     ELSE /\ req' = [req EXCEPT ![r] = [rq EXCEPT !.pc = "del", !.keys = keys]]
          /\ UNCHANGED <<pub, lastFeed, view>>
  /\ UNCHANGED <<posts, profiles, feedCache, userCache, redisOpen,
                 nextId, nops, accounts, synced>>

\* a del that leaves the keys in place
KeysKept(cache, keys) == cache

\* the feed keys after redisClient.del(keys)
DelKeys(cache, keys) == [v \in Users |-> IF v \in keys THEN <<>> ELSE cache[v]]

\* redisClient.del(keys) answers (fail: it threw, which clearCache logs)
DelStep(r, fail) ==
  LET rq == req[r] IN
  /\ Ready
  /\ rq.pc = "del"
  /\ rq.kind \in ContentKinds
  /\ feedCache' = IF fail THEN feedCache ELSE DelKeys(feedCache, rq.keys)
  /\ EndClear(r, rq)
  /\ UNCHANGED <<posts, profiles, userCache, redisOpen, nextId,
                 nops, accounts, synced>>

\* The user service answers the profile lookups of create, update, add comment
\* or add reply; F are the identities whose lookup failed.
LookupStep(r, F) ==
  /\ Ready
  /\ req[r].pc = "lookup"
  /\ req[r].kind \in LookupKinds
  /\ Publish(r, req[r], F)
  /\ UNCHANGED <<posts, profiles, feedCache, userCache, redisOpen,
                 nextId, nops, accounts, synced>>

\* ------------------------------------------------------------------ feed

\* One entry of the feed. A failed lookup of the post's owner gives the post
\* with user null and its comments as stored; a failed lookup of a comment's
\* owner leaves that comment as stored; replies are not looked up.
FeedEntry(d, F) ==
  IF d.user \in F THEN [ToObject(d) EXCEPT !.user = NullUser]
  ELSE [ToObject(d) EXCEPT
          !.user = ProfileOf(d.user),
          !.comments =
             [i \in 1..Len(@) |->
                IF d.comments[i].user \in F THEN @[i]
                ELSE [@[i] EXCEPT !.user = ProfileOf(d.comments[i].user)]]]

\* One entry of the posts of an owner: placeholder for the post's owner,
\* comments and replies as stored when their lookup fails.
OwnerEntry(d, F) ==
  [ToObject(d) EXCEPT
     !.user = Resolve(d.user, F),
     !.comments =
        [i \in 1..Len(@) |->
           IF d.comments[i].user \in F THEN @[i]
           ELSE [@[i] EXCEPT
                   !.user = ProfileOf(d.comments[i].user),
                   !.replies =
                      [j \in 1..Len(@) |->
                         IF d.comments[i].replies[j].user \in F THEN @[j]
                         ELSE [@[j] EXCEPT
                                 !.user = ProfileOf(d.comments[i].replies[j].user)]]]]]

\* a feed response that also emits the payload to the sockets
FeedRespondEmitting(r, rq, payload, cached) ==
  /\ req' = [req EXCEPT ![r] =
               [Respond(rq, 200, "", payload) EXCEPT
                  !.emitted = <<Event("feed", NoSuchId, NoSuchId, NoSuchId,
                                      payload)>>]]
  /\ lastFeed' = [lastFeed EXCEPT ![rq.user] =
                    [body |-> <<payload>>, quiet |-> cached]]

\* res.json(payload) of the feed handler, with the history of the viewer
FeedRespond(r, rq, payload, cached) ==
  /\ req' = [req EXCEPT ![r] = Respond(rq, 200, "", payload)]
  /\ lastFeed' = [lastFeed EXCEPT ![rq.user] =
                    [body |-> <<payload>>, quiet |-> cached]]

\* redisClient.get(cacheKey) answers (fail: it threw): a hit is returned as
\* parsed, a miss goes on to Post.find
FeedCacheGet(r, fail) ==
  LET rq == req[r] IN
  /\ Ready
  /\ rq.pc = "cacheGet"
  /\ IF fail
     THEN /\ req' = [req EXCEPT ![r] = ServerError(rq)]
          /\ UNCHANGED lastFeed
     ELSE IF feedCache[rq.user] # <<>>
     THEN FeedRespond(r, [rq EXCEPT !.trace = Append(@, "hit")],
                      Parse(feedCache[rq.user][1]), TRUE)
     ELSE /\ req' = [req EXCEPT ![r] = [rq EXCEPT !.pc = "find"]]
          /\ UNCHANGED lastFeed
  /\ UNCHANGED <<posts, profiles, feedCache, userCache, redisOpen,
                 nextId, nops, pub, accounts, synced, view>>

\* Post.find().sort({ createdAt: -1 }) answers the feed handler, or
\* Post.find({ user }).sort(...) the posts-of-an-owner handler
ReadFind(r) ==
  LET rq == req[r] IN
  /\ Ready
  /\ rq.pc = "find"
  /\ rq.kind \in ReadKinds
  /\ req' = [req EXCEPT ![r] =
       [rq EXCEPT !.pc = "lookup",
                  !.doc = IF rq.kind = "feed" THEN SortDesc(posts)
                          ELSE SortDesc({d \in posts : d.user = rq.ownerId})]]
  /\ UNCHANGED <<posts, profiles, feedCache, userCache, redisOpen,
                 nextId, nops, pub, lastFeed, accounts,
                 synced, view>>

\* The profile lookups of the feed are answered (F: the identities whose
\* lookup failed); with Redis open the payload is then written to the cache.
FeedLookup(r, F) ==
  LET rq == req[r]
      payload == [i \in 1..Len(rq.doc) |-> FeedEntry(rq.doc[i], F)]
  IN
  /\ Ready
  /\ rq.pc = "lookup"
  /\ rq.kind = "feed"
  /\ IF redisOpen
     THEN /\ req' = [req EXCEPT ![r] =
                [rq EXCEPT !.pc = "cacheSet", !.doc = <<>>,
                           !.body = [message |-> "", data |-> payload]]]
          /\ UNCHANGED lastFeed
     ELSE FeedRespond(r, rq, payload, FALSE)
  /\ UNCHANGED <<posts, profiles, feedCache, userCache, redisOpen,
                 nextId, nops, pub, accounts, synced, view>>

\* redisClient.setEx(cacheKey, 300, JSON.stringify(payload)) answers
\* (fail: it threw)
FeedCacheSet(r, fail) ==
  LET rq == req[r] IN
  /\ Ready
  /\ rq.pc = "cacheSet"
  /\ IF fail
     THEN /\ req' = [req EXCEPT ![r] = ServerError(rq)]
          /\ UNCHANGED <<feedCache, lastFeed>>
     ELSE /\ feedCache' = [feedCache EXCEPT ![rq.user] = <<Stringify(rq.body.data)>>]
          /\ FeedRespond(r, rq, rq.body.data, TRUE)
  /\ UNCHANGED <<posts, profiles, userCache, redisOpen, nextId,
                 nops, pub, accounts, synced, view>>

\* The profile lookups of the posts of an owner are answered.
OwnerLookup(r, F) ==
  LET rq == req[r] IN
  /\ Ready
  /\ rq.pc = "lookup"
  /\ rq.kind = "byOwner"
  /\ req' = [req EXCEPT ![r] =
       Respond(rq, 200, "", [i \in 1..Len(rq.doc) |-> OwnerEntry(rq.doc[i], F)])]
  /\ UNCHANGED <<posts, profiles, feedCache, userCache, redisOpen,
                 nextId, nops, pub, lastFeed, accounts,
                 synced, view>>

\* ------------------------------------------------------------------ profile edit

Disturbed == [v \in Users |-> [lastFeed[v] EXCEPT !.quiet = FALSE]]

\* PUT /me: User.findById answers; the handler assigns and calls save
ProfileFind(r) ==
  /\ Ready
  /\ req[r].pc = "pfind"
  /\ req' = [req EXCEPT ![r] = [req[r] EXCEPT !.pc = "psave"]]
  /\ UNCHANGED <<posts, profiles, feedCache, userCache, redisOpen,
                 nextId, nops, pub, lastFeed, accounts,
                 synced, view>>

\* PUT /me: user.save() answers; with Redis open the user key is deleted next
ProfileSave(r) ==
  LET rq == req[r] IN
  /\ Ready
  /\ rq.pc = "psave"
  /\ profiles' = [profiles EXCEPT ![rq.user] =
                    IF rq.firstName \notin {Undef, Null, ""} THEN rq.firstName ELSE @]
  /\ req' = [req EXCEPT ![r] =
               [rq EXCEPT !.pc = IF redisOpen THEN "pdelUser" ELSE "prefetch"]]
  /\ lastFeed' = Disturbed
  /\ UNCHANGED <<posts, feedCache, userCache, redisOpen, nextId,
                 nops, pub, view,
                 accounts, synced>>

\* a del of the user key that empties the profile namespace
ProfileDelAllUsers(r, fail) ==
  LET rq == req[r] IN
  /\ Ready
  /\ rq.pc = "pdelUser"
  /\ userCache' = [u \in Users |-> <<>>]
  /\ req' = [req EXCEPT ![r] = [rq EXCEPT !.pc = "pkeys"]]
  /\ UNCHANGED <<posts, profiles, feedCache, redisOpen, nextId,
                 nops, pub, lastFeed, accounts, synced, view>>

\* PUT /me: redisClient.del(`user:<id>`) answers (fail: it threw, which the
\* handler logs); then the feed keys are asked for
ProfileDelUser(r, fail) ==
  LET rq == req[r] IN
  /\ Ready
  /\ rq.pc = "pdelUser"
  /\ userCache' = IF fail THEN userCache ELSE [userCache EXCEPT ![rq.user] = <<>>]
  /\ req' = [req EXCEPT ![r] =
               [rq EXCEPT !.pc = IF fail THEN "prefetch" ELSE "pkeys"]]
  /\ UNCHANGED <<posts, profiles, feedCache, redisOpen, nextId,
                 nops, pub, lastFeed, accounts, synced, view>>

\* PUT /me: redisClient.keys('posts:feed:*') answers
ProfileKeys(r, fail) ==
  LET rq == req[r]
      keys == {v \in Users : feedCache[v] # <<>>}
  IN
  /\ Ready
  /\ rq.pc = "pkeys"
  /\ req' = [req EXCEPT ![r] =
               IF fail \/ keys = {} THEN [rq EXCEPT !.pc = "prefetch"]
               ELSE [rq EXCEPT !.pc = "pdelFeed", !.keys = keys]]
  /\ UNCHANGED <<posts, profiles, feedCache, userCache, redisOpen,
                 nextId, nops, pub, lastFeed, accounts,
                 synced, view>>

\* PUT /me: redisClient.del(feedKeys) answers
ProfileDelFeed(r, fail) ==
  LET rq == req[r] IN
  /\ Ready
  /\ rq.pc = "pdelFeed"
  /\ feedCache' = IF fail THEN feedCache ELSE DelKeys(feedCache, rq.keys)
  /\ req' = [req EXCEPT ![r] = [rq EXCEPT !.pc = "prefetch", !.keys = {}]]
  /\ UNCHANGED <<posts, profiles, userCache, redisOpen, nextId,
                 nops, pub, lastFeed, accounts, synced, view>>

\* PUT /me: User.findById(...).select("-password") answers and is returned
ProfileRefetch(r) ==
  LET rq == req[r] IN
  /\ Ready
  /\ rq.pc = "prefetch"
  /\ req' = [req EXCEPT ![r] = Respond(rq, 200, "", <<ProfileOf(rq.user)>>)]
  /\ UNCHANGED <<posts, profiles, feedCache, userCache, redisOpen,
                 nextId, nops, pub, lastFeed, accounts,
                 synced, view>>

\* ------------------------------------------------------------------ GET /me

\* GET /me: redisClient.get(`user:<id>`) answers (fail: it threw): a hit is
\* returned as parsed, a miss goes on to User.findById
MeCacheGet(r, fail) ==
  LET rq == req[r] IN
  /\ Ready
  /\ rq.pc = "mget"
  /\ req' = [req EXCEPT ![r] =
               IF fail THEN ServerError(rq)
               ELSE IF userCache[rq.user] # <<>>
               THEN Respond([rq EXCEPT !.trace = Append(@, "hit")], 200, "",
                            <<Parse(userCache[rq.user][1])>>)
               ELSE [rq EXCEPT !.pc = "mfind"]]
  /\ UNCHANGED <<posts, profiles, feedCache, userCache, redisOpen,
                 nextId, nops, pub, lastFeed, accounts,
                 synced, view>>

\* GET /me: User.findById(...).select("-password") answers; with Redis open
\* the profile is written to the cache next, else it is returned
MeFind(r) ==
  LET rq == req[r] IN
  /\ Ready
  /\ rq.pc = "mfind"
  /\ req' = [req EXCEPT ![r] =
               IF redisOpen
               THEN [rq EXCEPT !.pc = "mset", !.doc = <<ProfileOf(rq.user)>>]
               ELSE Respond(rq, 200, "", <<ProfileOf(rq.user)>>)]
  /\ UNCHANGED <<posts, profiles, feedCache, userCache, redisOpen,
                 nextId, nops, pub, lastFeed, accounts,
                 synced, view>>

\* GET /me: redisClient.setEx(`user:<id>`, 600, JSON.stringify(user)) answers
\* (fail: it threw) and the profile is returned
MeCacheSet(r, fail) ==
  LET rq == req[r] IN
  /\ Ready
  /\ rq.pc = "mset"
  /\ userCache' = IF fail THEN userCache
                  ELSE [userCache EXCEPT ![rq.user] = <<Stringify(rq.doc[1])>>]
  /\ req' = [req EXCEPT ![r] =
               IF fail THEN ServerError(rq) ELSE Respond(rq, 200, "", rq.doc)]
  /\ UNCHANGED <<posts, profiles, feedCache, redisOpen, nextId,
                 nops, pub, lastFeed, accounts, synced, view>>

\* ------------------------------------------------------------------ register

\* !field of the register handler: undefined, null and "" are falsy
Falsy(x) == x \in {Undef, Null, ""}

FieldMissing(rq) ==
  Falsy(rq.firstName) \/ Falsy(rq.lastName) \/ Falsy(rq.email) \/ Falsy(rq.password)

EmailsOf(S) == {a.email : a \in S}

\* POST /register arrives (no token is asked for): a request without one of
\* the four fields is answered 400, else User.findOne({ email }) is called
RegisterArrive(r, menu, limit) ==
  /\ Ready
  /\ req[r].pc = "idle"
  /\ \A q \in Slots : q < r => req[q].pc # "idle"
  /\ nops < limit
  /\ nops' = nops + 1
  /\ \E rq0 \in menu :
       LET rq == [rq0 EXCEPT !.known = EmailsOf(accounts)] IN
       req' = [req EXCEPT ![r] =
                 IF FieldMissing(rq)
                 THEN Respond(rq, 400, "All fields are required", <<>>)
                 ELSE [rq EXCEPT !.pc = "rfind"]]
  /\ UNCHANGED <<posts, profiles, feedCache, userCache, redisOpen, nextId,
                 pub, lastFeed, accounts, synced, view>>

\* a findOne that finds no account
RegFindBlind(r) ==
  /\ Ready
  /\ req[r].pc = "rfind"
  /\ req' = [req EXCEPT ![r] = [req[r] EXCEPT !.pc = "rcreate"]]
  /\ UNCHANGED <<posts, profiles, feedCache, userCache, redisOpen, nextId,
                 nops, pub, lastFeed, accounts, synced, view>>

\* User.findOne({ email }) answers: an account with the email is answered
\* 400, else the password is hashed and User.create is called
RegFind(r) ==
  LET rq == req[r] IN
  /\ Ready
  /\ rq.pc = "rfind"
  /\ req' = [req EXCEPT ![r] =
               IF rq.email \in EmailsOf(accounts)
               THEN Respond(rq, 400, "User already exists", <<>>)
               ELSE [rq EXCEPT !.pc = "rcreate"]]
  /\ UNCHANGED <<posts, profiles, feedCache, userCache, redisOpen, nextId,
                 nops, pub, lastFeed, accounts, synced, view>>

\* User.create answers: the unique index on email rejects a second account
\* with the email (the catch answers 500), else the account is stored with a
\* fresh id and /sync-user of the user service is called
RegCreate(r) ==
  LET rq == req[r]
      a == [_id |-> nextId, email |-> rq.email]
  IN
  /\ Ready
  /\ rq.pc = "rcreate"
  /\ IF rq.email \in EmailsOf(accounts)
     THEN /\ req' = [req EXCEPT ![r] = ServerError(rq)]
          /\ UNCHANGED <<accounts, nextId>>
     ELSE /\ accounts' = accounts \cup {a}
          /\ nextId' = nextId + 1
          /\ req' = [req EXCEPT ![r] = [rq EXCEPT !.pc = "rsync", !.doc = <<a>>]]
  /\ UNCHANGED <<posts, profiles, feedCache, userCache, redisOpen, nops, pub,
                 lastFeed, synced, view>>

\* a sync call that always stores the user
SyncAlways(r, fail) ==
  LET rq == req[r] IN
  /\ Ready
  /\ rq.pc = "rsync"
  /\ synced' = synced \cup {rq.doc[1]._id}
  /\ req' = [req EXCEPT ![r] =
               Respond(rq, 201, "User registered successfully", <<rq.doc[1]._id>>)]
  /\ UNCHANGED <<posts, profiles, feedCache, userCache, redisOpen, nextId,
                 nops, pub, lastFeed, accounts, view>>

\* axios.post(/sync-user) answers (fail: it threw, which the handler logs):
\* the user service stores a user with the id unless it has one; the register
\* request is answered 201 either way
RegSync(r, fail) ==
  LET rq == req[r] IN
  /\ Ready
  /\ rq.pc = "rsync"
  /\ synced' = IF fail THEN synced ELSE synced \cup {rq.doc[1]._id}
  /\ req' = [req EXCEPT ![r] =
               Respond(rq, 201, "User registered successfully", <<rq.doc[1]._id>>)]
  /\ UNCHANGED <<posts, profiles, feedCache, userCache, redisOpen, nextId,
                 nops, pub, lastFeed, accounts, view>>

\* ------------------------------------------------------------------ Redis

\* connectRedis() completes after the service has started to serve
RedisConnect ==
  /\ Ready
  /\ ~redisOpen
  /\ redisOpen' = TRUE
  /\ UNCHANGED <<posts, profiles, feedCache, userCache, req,
                 nextId, nops, pub, lastFeed, accounts,
                 synced, view>>

\* the expiry set by setEx passes for the feed key of viewer v
Expire(v) ==
  /\ Ready
  /\ feedCache[v] # <<>>
  /\ feedCache' = [feedCache EXCEPT ![v] = <<>>]
  /\ lastFeed' = [lastFeed EXCEPT ![v].quiet = FALSE]
  /\ UNCHANGED <<posts, profiles, userCache, redisOpen, req,
                 nextId, nops, pub, accounts, synced, view>>

\* ------------------------------------------------------------------ inputs

NewReq(kind, cred) == [IdleReq EXCEPT !.kind = kind, !.cred = cred]

PostIds == {d._id : d \in posts}
CommentIds(p) ==
  UNION {{c._id : c \in SeqToSet(d.comments)} : d \in {x \in posts : x._id = p}}
ReplyIds(p, c) ==
  UNION {{y._id : y \in SeqToSet(k.replies)} :
           k \in UNION {{x \in SeqToSet(d.comments) : x._id = c} :
                          d \in {x \in posts : x._id = p}}}

\* requests of every kind without a token or with one the auth service rejects
Unauthenticated(kinds) == {NewReq(k, c) : k \in kinds, c \in {NoToken, BadToken}}

\* reads and mutations with the given texts on the posts P
RequestsOn(P, createTexts, updateTexts, commentTexts) ==
  {[NewReq("create", c) EXCEPT !.text = t, !.image = i, !.youtubeUrl = y] :
     c \in Users, t \in createTexts, i \in ImageInputs, y \in VideoInputs}
  \cup {NewReq("feed", c) : c \in Users}
  \cup {[NewReq("byOwner", c) EXCEPT !.ownerId = o] : c \in Users, o \in Users}
  \cup {[NewReq(k, c) EXCEPT !.postId = p] :
          k \in {"delete", "like", "unlike"}, c \in Users, p \in P}
  \cup {[NewReq("update", c) EXCEPT !.postId = p, !.text = t, !.bodyUser = b] :
          c \in Users, p \in P, t \in updateTexts, b \in BodyUserInputs}
  \cup {[NewReq("addComment", c) EXCEPT !.postId = p, !.text = t] :
          c \in Users, p \in P, t \in commentTexts}
  \cup UNION {{[NewReq("addReply", c) EXCEPT !.postId = p, !.commentId = m, !.text = t] :
                 c \in Users, t \in commentTexts, m \in CommentIds(p)} : p \in P}
  \cup UNION {{[NewReq("delComment", c) EXCEPT !.postId = p, !.commentId = m] :
                 c \in Users, m \in CommentIds(p)} : p \in P}
  \cup UNION {UNION {{[NewReq("delReply", c) EXCEPT !.postId = p, !.commentId = m,
                                                    !.replyId = y] :
                        c \in Users, y \in ReplyIds(p, m)} :
                     m \in CommentIds(p)} : p \in P}

\* Concurrent clients: complete requests on the posts they see, and requests
\* without a valid token.
Requests ==
  Unauthenticated(ContentKinds \cup ReadKinds)
  \cup RequestsOn(PostIds, {"a"}, {"b"}, {"c"})

\* One client at a time: also requests that leave the text out or name a post
\* that does not exist, and profile edits.
SeqRequests ==
  Unauthenticated(ContentKinds \cup ReadKinds \cup {"profileEdit"})
  \cup RequestsOn(PostIds \cup {NoSuchId}, CreateTexts, UpdateTexts, CommentTexts)
  \cup {[NewReq("profileEdit", c) EXCEPT !.firstName = n] :
          c \in Users, n \in NameInputs}

\* Readers and writers of the posts: feed reads against like, unlike, update
\* and delete.
RaceRequests ==
  {NewReq("feed", c) : c \in Users}
  \cup {[NewReq(k, c) EXCEPT !.postId = p] :
          k \in {"delete", "like", "unlike"}, c \in Users, p \in PostIds}
  \cup {[NewReq("update", c) EXCEPT !.postId = p, !.text = t, !.bodyUser = b] :
          c \in Users, p \in PostIds, t \in {"a", "b"}, b \in BodyUserInputs}

\* media fields of a create or update: none, an image, a recognized video
\* link, the embed link itself and an unrecognized link
MediaImages == {Undef, "img"}
MediaVideos == {Undef, "watch?v=A", "embed/A", "other"}

\* One client at a time, sending media fields, while io.emit may throw.
EdgeRequests ==
  {[NewReq("create", c) EXCEPT !.text = "a", !.image = i, !.youtubeUrl = y,
                               !.emitThrows = e] :
     c \in Users, i \in MediaImages, y \in MediaVideos, e \in BOOLEAN}
  \cup {[NewReq("update", c) EXCEPT !.postId = p, !.image = i, !.youtubeUrl = y,
                                    !.emitThrows = e] :
          c \in Users, p \in PostIds, i \in MediaImages, y \in MediaVideos,
          e \in BOOLEAN}
  \cup {[NewReq(k, c) EXCEPT !.postId = p, !.emitThrows = e] :
          k \in {"delete", "like", "unlike"}, c \in Users, p \in PostIds,
          e \in BOOLEAN}
  \cup {NewReq("feed", c) : c \in Users}

\* Clients of the user service and readers of the feed: profile edits, reads
\* of the own profile, feed reads and likes.
ProfileRequests ==
  {[NewReq("profileEdit", c) EXCEPT !.firstName = n] :
     c \in Users, n \in NameInputs}
  \cup {NewReq(k, c) : k \in {"me", "feed"}, c \in Users}
  \cup {[NewReq("like", c) EXCEPT !.postId = p] : c \in Users, p \in PostIds}

\* Concurrent mutations of two stored posts.
ItemRequests ==
  {[NewReq(k, c) EXCEPT !.postId = p] :
     k \in {"delete", "like", "unlike"}, c \in Users, p \in PostIds}
  \cup {[NewReq("update", c) EXCEPT !.postId = p, !.text = "b"] :
          c \in Users, p \in PostIds}
  \cup {[NewReq("addComment", c) EXCEPT !.postId = p, !.text = "c"] :
          c \in Users, p \in PostIds}

\* fields of a register request: left out or given; an email with an account
\* and one without
RegisterNames == {Undef, "n2"}
RegisterEmails == {Undef, "e1", "e3"}
RegisterPasswords == {Undef, "pw"}

\* Clients of the auth service.
RegisterRequests ==
  {[NewReq("register", NoToken) EXCEPT !.firstName = f, !.lastName = l,
                                       !.email = e, !.password = w] :
     f \in RegisterNames, l \in RegisterNames, e \in RegisterEmails,
     w \in RegisterPasswords}

\* ------------------------------------------------------------------ specification

InitCommon ==
  /\ posts = {SeedPost}
  /\ profiles = [u \in Users |-> "n1"]
  /\ feedCache = [v \in Users |-> <<>>]
  /\ userCache = [v \in Users |-> <<>>]
  /\ req = [r \in Slots |-> IdleReq]
  /\ nextId = Cardinality(SeedIds) + 1
  /\ nops = 0
  /\ pub = [id \in {d._id : d \in posts} |-> SeedPost.rev]
  /\ lastFeed = [v \in Users |-> NoFeed]
  /\ accounts = SeedAccounts
  /\ synced = {a._id : a \in SeedAccounts}
  /\ view = NoView

\* the service has just started: Redis is not connected yet
Init == InitCommon /\ redisOpen = FALSE

\* the service is running with Redis connected
InitOpen == InitCommon /\ redisOpen = TRUE

\* Concurrent requests of every kind; Redis connects at some point and its
\* calls can fail.
Next ==
  \/ \E r \in Slots : Arrive(r, Requests, MaxOps)
  \/ \E r \in Slots : FindStep(r)
  \/ \E r \in Slots : SaveStep(r)
  \/ \E r \in Slots, fail \in BOOLEAN : KeysStep(r, fail)
  \/ \E r \in Slots, fail \in BOOLEAN : DelStep(r, fail)
  \/ \E r \in Slots, F \in LookupFailures : LookupStep(r, F)
  \/ \E r \in Slots, fail \in BOOLEAN : FeedCacheGet(r, fail)
  \/ \E r \in Slots : ReadFind(r)
  \/ \E r \in Slots, F \in LookupFailures : FeedLookup(r, F)
  \/ \E r \in Slots, fail \in BOOLEAN : FeedCacheSet(r, fail)
  \/ \E r \in Slots, F \in LookupFailures : OwnerLookup(r, F)
  \/ \E r \in Slots : Close(r)
  \/ RedisConnect
  \/ \E v \in Users : Expire(v)

Spec == Init /\ [][Next]_vars

\* Requests one after another (one slot), Redis connected and answering; the
\* profile lookups can fail and cache entries can expire.
SeqNext ==
  \/ \E r \in SeqSlots : Arrive(r, SeqRequests, MaxSeqOps)
  \/ \E r \in SeqSlots : FindStep(r)
  \/ \E r \in SeqSlots : SaveStep(r)
  \/ \E r \in SeqSlots : KeysStep(r, FALSE)
  \/ \E r \in SeqSlots : DelStep(r, FALSE)
  \/ \E r \in SeqSlots, F \in LookupFailures : LookupStep(r, F)
  \/ \E r \in SeqSlots : FeedCacheGet(r, FALSE)
  \/ \E r \in SeqSlots : ReadFind(r)
  \/ \E r \in SeqSlots, F \in LookupFailures : FeedLookup(r, F)
  \/ \E r \in SeqSlots : FeedCacheSet(r, FALSE)
  \/ \E r \in SeqSlots, F \in LookupFailures : OwnerLookup(r, F)
  \/ \E r \in SeqSlots : ProfileFind(r)
  \/ \E r \in SeqSlots : ProfileSave(r)
  \/ \E r \in SeqSlots : ProfileDelUser(r, FALSE)
  \/ \E r \in SeqSlots : ProfileKeys(r, FALSE)
  \/ \E r \in SeqSlots : ProfileDelFeed(r, FALSE)
  \/ \E r \in SeqSlots : ProfileRefetch(r)
  \/ \E r \in SeqSlots : Close(r)
  \/ \E v \in Users : Expire(v)

SeqSpec == InitOpen /\ [][SeqNext]_vars

\* Concurrent feed reads and mutations of the posts, Redis connected and
\* answering.
RaceNext ==
  \/ \E r \in Slots : Arrive(r, RaceRequests, MaxRaceOps)
  \/ \E r \in Slots : FindStep(r)
  \/ \E r \in Slots : SaveStep(r)
  \/ \E r \in Slots : KeysStep(r, FALSE)
  \/ \E r \in Slots : DelStep(r, FALSE)
  \/ \E r \in Slots, F \in LookupFailures : LookupStep(r, F)
  \/ \E r \in Slots : FeedCacheGet(r, FALSE)
  \/ \E r \in Slots : ReadFind(r)
  \/ \E r \in Slots, F \in LookupFailures : FeedLookup(r, F)
  \/ \E r \in Slots : FeedCacheSet(r, FALSE)
  \/ \E r \in Slots : Close(r)

RaceSpec == InitOpen /\ [][RaceNext]_vars

\* Requests one after another with media fields, Redis connected and
\* answering, while io.emit may throw.
EdgeNext ==
  \/ \E r \in SeqSlots : Arrive(r, EdgeRequests, MaxEdgeOps)
  \/ \E r \in SeqSlots : FindStep(r)
  \/ \E r \in SeqSlots : SaveStep(r)
  \/ \E r \in SeqSlots : KeysStep(r, FALSE)
  \/ \E r \in SeqSlots : DelStep(r, FALSE)
  \/ \E r \in SeqSlots, F \in LookupFailures : LookupStep(r, F)
  \/ \E r \in SeqSlots : FeedCacheGet(r, FALSE)
  \/ \E r \in SeqSlots : ReadFind(r)
  \/ \E r \in SeqSlots, F \in LookupFailures : FeedLookup(r, F)
  \/ \E r \in SeqSlots : FeedCacheSet(r, FALSE)
  \/ \E r \in SeqSlots : Close(r)

EdgeSpec == InitOpen /\ [][EdgeNext]_vars

\* Concurrent profile edits, profile reads, feed reads and likes, Redis
\* connected and answering.
ProfileNext ==
  \/ \E r \in Slots : Arrive(r, ProfileRequests, MaxProfileOps)
  \/ \E r \in Slots : FindStep(r)
  \/ \E r \in Slots : SaveStep(r)
  \/ \E r \in Slots : KeysStep(r, FALSE)
  \/ \E r \in Slots : DelStep(r, FALSE)
  \/ \E r \in Slots : FeedCacheGet(r, FALSE)
  \/ \E r \in Slots : ReadFind(r)
  \/ \E r \in Slots : FeedLookup(r, {})
  \/ \E r \in Slots : FeedCacheSet(r, FALSE)
  \/ \E r \in Slots : MeCacheGet(r, FALSE)
  \/ \E r \in Slots : MeFind(r)
  \/ \E r \in Slots : MeCacheSet(r, FALSE)
  \/ \E r \in Slots : ProfileFind(r)
  \/ \E r \in Slots : ProfileSave(r)
  \/ \E r \in Slots : ProfileDelUser(r, FALSE)
  \/ \E r \in Slots : ProfileKeys(r, FALSE)
  \/ \E r \in Slots : ProfileDelFeed(r, FALSE)
  \/ \E r \in Slots : ProfileRefetch(r)
  \/ \E r \in Slots : Close(r)

ProfileSpec == InitOpen /\ [][ProfileNext]_vars

\* the service has just started with two posts in the store
InitItems ==
  /\ posts = {SeedPost, SecondPost}
  /\ profiles = [u \in Users |-> "n1"]
  /\ feedCache = [v \in Users |-> <<>>]
  /\ userCache = [v \in Users |-> <<>>]
  /\ redisOpen = FALSE
  /\ req = [r \in Slots |-> IdleReq]
  /\ nextId = SecondPost._id + 1
  /\ nops = 0
  /\ pub = (SeedPost._id :> SeedPost.rev) @@ (SecondPost._id :> SecondPost.rev)
  /\ lastFeed = [v \in Users |-> NoFeed]
  /\ accounts = SeedAccounts
  /\ synced = {a._id : a \in SeedAccounts}
  /\ view = NoView

\* Concurrent mutations of the two posts, Redis not connected.
ItemsNext ==
  \/ \E r \in Slots : Arrive(r, ItemRequests, MaxItemOps)
  \/ \E r \in Slots : FindStep(r)
  \/ \E r \in Slots : SaveStep(r)
  \/ \E r \in Slots, F \in LookupFailures : LookupStep(r, F)
  \/ \E r \in Slots : Close(r)

ItemsSpec == InitItems /\ [][ItemsNext]_vars

\* Concurrent register requests; the sync call to the user service can fail.
AuthNext ==
  \/ \E r \in Slots : RegisterArrive(r, RegisterRequests, MaxAuthOps)
  \/ \E r \in Slots : RegFind(r)
  \/ \E r \in Slots : RegCreate(r)
  \/ \E r \in Slots, fail \in BOOLEAN : RegSync(r, fail)
  \/ \E r \in Slots : Close(r)

AuthSpec == InitOpen /\ [][AuthNext]_vars

\* a feed page has fetched the posts and its socket is connected
InitView ==
  /\ posts = {SeedPost}
  /\ profiles = [u \in Users |-> "n1"]
  /\ feedCache = [v \in Users |-> <<>>]
  /\ userCache = [v \in Users |-> <<>>]
  /\ redisOpen = FALSE
  /\ req = [r \in Slots |-> IdleReq]
  /\ nextId = Cardinality(SeedIds) + 1
  /\ nops = 0
  /\ pub = [id \in {d._id : d \in posts} |-> SeedPost.rev]
  /\ lastFeed = [v \in Users |-> NoFeed]
  /\ accounts = SeedAccounts
  /\ synced = {a._id : a \in SeedAccounts}
  /\ view = [on |-> TRUE, posts |-> <<FeedEntry(SeedPost, {})>>]

\* Concurrent mutations while the feed page listens, Redis not connected.
ViewNext ==
  \/ \E r \in Slots : Arrive(r, RequestsOn(PostIds, {"a"}, {"b"}, {"c"}), MaxViewOps)
  \/ \E r \in Slots : FindStep(r)
  \/ \E r \in Slots : SaveStep(r)
  \/ \E r \in Slots : LookupStep(r, {})
  \/ \E r \in Slots : ReadFind(r)
  \/ \E r \in Slots : FeedLookup(r, {})
  \/ \E r \in Slots : OwnerLookup(r, {})
  \/ \E r \in Slots : Close(r)

ViewSpec == InitView /\ [][ViewNext]_vars

\* comments and replies added to and deleted from the posts in the store
ThreadRequests ==
  {[NewReq("addComment", c) EXCEPT !.postId = p, !.text = "c"] :
     c \in Users, p \in PostIds}
  \cup UNION {{[NewReq("addReply", c) EXCEPT !.postId = p, !.commentId = m,
                                              !.text = "c"] :
                 c \in Users, m \in CommentIds(p)} : p \in PostIds}
  \cup UNION {{[NewReq("delComment", c) EXCEPT !.postId = p, !.commentId = m] :
                 c \in Users, m \in CommentIds(p)} : p \in PostIds}
  \cup UNION {UNION {{[NewReq("delReply", c) EXCEPT !.postId = p, !.commentId = m,
                                                    !.replyId = y] :
                        c \in Users, y \in ReplyIds(p, m)} :
                     m \in CommentIds(p)} : p \in PostIds}

\* Concurrent requests on the comments and replies of one post, Redis not
\* connected.
ThreadNext ==
  \/ \E r \in Slots : Arrive(r, ThreadRequests, MaxThreadOps)
  \/ \E r \in Slots : FindStep(r)
  \/ \E r \in Slots : SaveStep(r)
  \/ \E r \in Slots : LookupStep(r, {})
  \/ \E r \in Slots : Close(r)

ThreadSpec == InitView /\ [][ThreadNext]_vars

\* ------------------------------------------------------------------ properties

\* the like list of the stored post id
LikesIn(S, id) == (CHOOSE d \in S : d._id = id).likes

\* a finished feed read of slot r that returned a payload
FeedReturned(r) ==
  req[r].kind = "feed" /\ req[r].pc = "done" /\ req[r].status = 200

\* C1: a feed read that starts after a mutation of a post was published (its
\* event emitted and its response sent) returns that post, if at all, no older
\* than the mutation left it, and does not return a post whose delete was
\* published, whatever requests ran concurrently.
FeedFresh ==
  \A r \in Slots :
    FeedReturned(r) =>
      \A i \in 1..Len(req[r].body.data) :
        LET e == req[r].body.data[i] IN
        e._id \in DOMAIN req[r].floor => e.rev >= req[r].floor[e._id]

\* C2: a mutation asks the cache for its keys only once the store has
\* acknowledged the write, emits its event only once clearCache has returned,
\* and a mutation that answers 200 or 201 has written, cleared, emitted and
\* responded in this order.
MutationOrder ==
  \A r \in Slots :
    LET rq == req[r] IN
    rq.kind \in ContentKinds =>
      /\ rq.pc \in {"keys", "del"} => rq.trace = <<"write">> /\ rq.emitted = <<>>
      /\ rq.pc = "lookup" => rq.trace = <<"write", "clear">> /\ rq.emitted = <<>>
      /\ rq.emitted # <<>> => rq.pc = "done" /\ rq.status \in {200, 201}
      /\ rq.pc = "done" /\ rq.status \in {200, 201} =>
           /\ rq.trace = <<"write", "clear", "emit", "resp">>
           /\ Len(rq.emitted) = 1

\* an update answered 200 after its write, clearCache with Redis open and its
\* event
MutationOrderWitness ==
  \E r \in Slots :
    /\ req[r].kind = "update" /\ req[r].pc = "done" /\ req[r].status = 200
    /\ req[r].emitted # <<>>
    /\ redisOpen

\* what a feed entry shows of a post
Shown(e) == <<e._id, e.text, e.likes>>

\* C3: with requests one after another and the cache answering, every feed
\* read returns one entry for each post in the store and no other, with the
\* text and the likes the store holds.
FeedMatchesStore ==
  \A r \in Slots :
    FeedReturned(r) =>
      LET body == req[r].body.data IN
      /\ Len(body) = Cardinality(posts)
      /\ {Shown(body[i]) : i \in 1..Len(body)} = {Shown(d) : d \in posts}

\* a feed read returned the post with an edited text and one like
FeedMatchesStoreWitness ==
  \E r \in Slots :
    /\ FeedReturned(r)
    /\ \E i \in 1..Len(req[r].body.data) :
         /\ req[r].body.data[i].text = "b"
         /\ Len(req[r].body.data[i].likes) = 1

\* C4 as stated: a feed read of a viewer returns the payload of the viewer's
\* previous feed read whenever no mutation was published in between.
StableAlways ==
  [][\A r \in Slots :
       (/\ req[r].kind = "feed"
        /\ req[r].pc \notin {"idle", "done"}
        /\ req'[r].pc = "done" /\ req'[r].status = 200
        /\ lastFeed[req[r].user].body # <<>>)
       => req'[r].body.data = lastFeed[req[r].user].body[1]]_vars

\* C4: with requests one after another and the cache answering, a feed read of
\* a viewer returns the payload of the viewer's previous feed read whenever no
\* mutation was published, no profile was edited and the viewer's cache entry
\* did not expire in between, whichever profile lookups failed.
StableWhileCached ==
  [][\A r \in Slots :
       (/\ req[r].kind = "feed"
        /\ req[r].pc \notin {"idle", "done"}
        /\ req'[r].pc = "done" /\ req'[r].status = 200
        /\ lastFeed[req[r].user].body # <<>>
        /\ lastFeed[req[r].user].quiet)
       => req'[r].body.data = lastFeed[req[r].user].body[1]]_vars

\* a feed read answered from the cache a payload assembled while the lookup
\* of the post's owner failed
StableWhileCachedWitness ==
  \E r \in Slots :
    /\ FeedReturned(r)
    /\ req[r].trace = <<"hit", "resp">>
    /\ lastFeed[req[r].user].quiet
    /\ \E i \in 1..Len(req[r].body.data) : req[r].body.data[i].user = NullUser

\* C5: with requests one after another, a like by an identity that is in the
\* like list of the post is answered 400 'Post already liked' with the store
\* and the cache unchanged and nothing emitted; a like by an identity that is
\* not in it appends the identity (the count grows by one) and is answered 200
\* with the new count.
LikeOnce ==
  [][\A r \in Slots :
       LET rq == req[r]
           found == FindById(rq.postId)
       IN
       (rq.kind = "like" /\ rq.pc \in {"find", "save", "keys", "del"}
        /\ found # <<>> /\ req'[r] # rq) =>
         IF rq.pc = "find" /\ rq.user \in SeqToSet(found[1].likes)
         THEN /\ req'[r].pc = "done" /\ req'[r].status = 400
              /\ req'[r].body.message = "Post already liked"
              /\ req'[r].emitted = <<>> /\ req'[r].trace = <<"resp">>
              /\ UNCHANGED <<posts, feedCache, pub>>
         ELSE IF rq.pc = "find" THEN req'[r].pc = "save"
         ELSE IF rq.pc = "save"
         THEN /\ req'[r].status = 0
              /\ LikesIn(posts', rq.postId) = Append(found[1].likes, rq.user)
         ELSE /\ posts' = posts
              /\ req'[r].pc = "done" =>
                   /\ req'[r].status = 200
                   /\ req'[r].body.data = <<Len(found[1].likes)>>]_vars

\* a second like by the same identity was answered 400 and the like is
\* stored once
LikeOnceWitness ==
  \E r \in Slots :
    /\ req[r].kind = "like" /\ req[r].pc = "done" /\ req[r].status = 400
    /\ \E d \in posts : d._id = req[r].postId /\ d.likes = <<req[r].user>>

\* C6: the like list of every stored post holds each identity at most once,
\* whatever like and unlike requests ran concurrently.
LikesDistinct ==
  \A d \in posts :
    \A i, j \in 1..Len(d.likes) : d.likes[i] = d.likes[j] => i = j

\* C7: with requests one after another, an unlike of an existing post is never
\* answered with an error, leaves the store as it is when the identity is not in
\* the like list, and when it has answered the identity is not in the stored
\* like list and the count returned is the length of that list: a second unlike
\* finds the identity absent and changes nothing.
UnlikeIdempotent ==
  [][\A r \in Slots :
       LET rq == req[r]
           found == FindById(rq.postId)
       IN
       (rq.kind = "unlike" /\ rq.pc \in {"find", "save", "keys", "del"}
        /\ found # <<>> /\ req'[r] # rq) =>
         /\ req'[r].status \in {0, 200}
         /\ rq.user \notin SeqToSet(found[1].likes) => posts' = posts
         /\ req'[r].pc = "done" =>
              /\ rq.user \notin SeqToSet(LikesIn(posts', rq.postId))
              /\ req'[r].body.data = <<Len(LikesIn(posts', rq.postId))>>]_vars

\* an unlike by an identity that had not liked the post was saved with nothing
\* to write, and the like of the other identity is still stored
UnlikeIdempotentWitness ==
  \E r \in Slots :
    /\ req[r].kind = "unlike" /\ req[r].pc = "keys" /\ req[r].dirty = {}
    /\ \E d \in posts :
         /\ d._id = req[r].postId
         /\ d.likes # <<>>
         /\ req[r].user \notin SeqToSet(d.likes)

\* C8: an update or delete of an existing post by an identity other than the
\* stored owner is answered 403 at once, whatever user the request body names:
\* the store and the cache are unchanged and nothing is emitted.
NonOwnerRejected ==
  [][\A r \in Slots :
       LET rq == req[r]
           found == FindById(rq.postId)
       IN
       (rq.kind \in {"update", "delete"} /\ rq.pc = "find"
        /\ found # <<>> /\ found[1].user # rq.user /\ req'[r] # rq) =>
         /\ req'[r].pc = "done" /\ req'[r].status = 403
         /\ req'[r].emitted = <<>> /\ req'[r].trace = <<"resp">>
         /\ UNCHANGED <<posts, feedCache, pub>>]_vars

\* an update whose body names the owner of the post was answered 403 to
\* another identity, and the post is stored with its text
NonOwnerRejectedWitness ==
  \E r \in Slots :
    /\ req[r].kind = "update" /\ req[r].pc = "done" /\ req[r].status = 403
    /\ \E d \in posts :
         /\ d._id = req[r].postId
         /\ d.user = req[r].bodyUser /\ d.user # req[r].user
         /\ d.text = SeedPost.text

\* C9: once the delete of a post was published, the post (with its comments
\* and replies) is not in the store and no read that starts afterwards returns
\* it.
DeletedStaysGone ==
  /\ \A id \in DOMAIN pub : pub[id] = DeletedRev => id \notin {d._id : d \in posts}
  /\ \A r \in Slots :
       (req[r].kind \in ReadKinds /\ req[r].pc = "done" /\ req[r].status = 200) =>
         \A i \in 1..Len(req[r].body.data) :
           LET id == req[r].body.data[i]._id IN
           id \in DOMAIN req[r].floor => req[r].floor[id] # DeletedRev

\* C10: a request of any kind without a token, or with a token the auth
\* service rejects, is answered 401 as it arrives: the store, the profiles and
\* the cache are unchanged, nothing is emitted and the response carries no
\* payload.
Unauthorized ==
  [][\A r \in Slots :
       (req[r].pc = "idle" /\ req'[r].pc # "idle" /\ req'[r].cred \notin Users) =>
         /\ req'[r].pc = "done" /\ req'[r].status = 401
         /\ req'[r].body.data = <<>>
         /\ req'[r].emitted = <<>> /\ req'[r].trace = <<"resp">>
         /\ UNCHANGED <<posts, profiles, feedCache, userCache, pub, nextId>>]_vars

\* a feed read with a rejected token was answered 401 while a feed payload
\* was in the cache
UnauthorizedWitness ==
  \E r \in Slots :
    /\ req[r].kind = "feed" /\ req[r].cred = BadToken
    /\ req[r].pc = "done" /\ req[r].status = 401
    /\ \E v \in Users : feedCache[v] # <<>>

\* C11: a mutation has emitted an event only if the store acknowledged its
\* write before (the first entry of its trace, with the revision the store
\* answered), and a mutation whose write the store rejected (answered 500)
\* has emitted nothing.
EventAfterWrite ==
  \A r \in Slots :
    LET rq == req[r] IN
    rq.kind \in ContentKinds =>
      /\ (rq.emitted # <<>> \/ "emit" \in SeqToSet(rq.trace)) =>
           /\ rq.wrote # 0
           /\ rq.trace # <<>> /\ rq.trace[1] = "write"
      /\ rq.status = 500 => rq.emitted = <<>> /\ "emit" \notin SeqToSet(rq.trace)

\* the save of a like was rejected (the post was deleted meanwhile): answered
\* 500 with nothing emitted
EventAfterWriteWitness ==
  \E r \in Slots :
    /\ req[r].kind = "like" /\ req[r].pc = "done" /\ req[r].status = 500
    /\ req[r].wrote = 0 /\ req[r].emitted = <<>>
    /\ req[r].postId \notin {d._id : d \in posts}

\* the posts a read that started after they were published has to show: for
\* the feed all of them, for the posts of an owner those of that owner
Expected(rq) ==
  {d \in posts : /\ d._id \in DOMAIN rq.floor
                 /\ rq.kind = "byOwner" => d.user = rq.ownerId}

\* C12: a feed read or a read of the posts of an owner with a verified token
\* is answered 200 with every stored post in the payload, whichever profile
\* lookups fail.
ReadsSucceed ==
  \A r \in Slots :
    (req[r].kind \in ReadKinds /\ req[r].pc = "done" /\ req[r].cred \in Users) =>
      /\ req[r].status = 200
      /\ \A d \in Expected(req[r]) :
           \E i \in 1..Len(req[r].body.data) : req[r].body.data[i]._id = d._id

\* an embedded profile or the placeholder { _id }, with the identity in it
Snapshot(u) == u.kind \in {"profile", "placeholder"} /\ u._id \in Users

\* C13: in every payload of the feed, the owner of each post and of each
\* comment is a profile or, when its lookup failed, the placeholder with the
\* identity: never null, never without the identity.
FeedPlaceholders ==
  \A r \in Slots :
    FeedReturned(r) =>
      \A i \in 1..Len(req[r].body.data) :
        LET e == req[r].body.data[i] IN
        /\ Snapshot(e.user)
        /\ \A j \in 1..Len(e.comments) : Snapshot(e.comments[j].user)

\* a reader of posts answered 200
ReadReturned(r) ==
  req[r].kind \in ReadKinds /\ req[r].pc = "done" /\ req[r].status = 200

\* C14: in every payload of the feed and of the posts of an owner, the owner
\* of each post, each comment and each reply is an embedded profile or
\* placeholder object, not a bare identity.
AllEmbedded ==
  \A r \in Slots :
    ReadReturned(r) =>
      \A i \in 1..Len(req[r].body.data) :
        LET e == req[r].body.data[i] IN
        /\ Snapshot(e.user)
        /\ \A j \in 1..Len(e.comments) :
             /\ Snapshot(e.comments[j].user)
             /\ \A k \in 1..Len(e.comments[j].replies) :
                  Snapshot(e.comments[j].replies[k].user)

\* C15: a feed read with a verified token is never answered with an error,
\* whether Redis is connected or not and whether its get or setEx fails.
FeedSurvivesCache ==
  \A r \in Slots :
    (req[r].kind = "feed" /\ req[r].cred \in Users /\ req[r].pc = "done") =>
      req[r].status = 200

\* C16: a mutation whose write the store has acknowledged is answered 200 or
\* 201, also when io.emit throws.
EmitFailureSwallowed ==
  \A r \in Slots :
    (/\ req[r].kind \in ContentKinds
     /\ req[r].pc = "done"
     /\ "write" \in SeqToSet(req[r].trace)) => req[r].status \in {200, 201}

\* C17: every stored post has its image or its youtubeUrl unset.
MediaExclusive ==
  \A d \in posts : d.image \in {Undef, Null} \/ d.youtubeUrl \in {Undef, Null}

\* C18: a create, and an add comment or add reply on an existing post, whose
\* text is missing or empty is answered 400 with nothing written, cleared or
\* emitted.
EmptyTextRejected ==
  \A r \in Slots :
    LET rq == req[r] IN
    (/\ rq.kind \in {"create", "addComment", "addReply"}
     /\ rq.cred \in Users
     /\ rq.pc = "done"
     /\ Invalid(rq.text)
     /\ rq.kind = "create" \/ FindById(rq.postId) # <<>>) =>
      /\ rq.status = 400
      /\ rq.trace = <<"resp">> /\ rq.emitted = <<>>

\* the comment (delete comment) or reply (delete reply) that request rq names
\* in post d, if it is there
Named(rq, d) ==
  LET i == IndexOfId(d.comments, rq.commentId) IN
  IF i = 0 THEN <<>>
  ELSE IF rq.kind = "delComment" THEN <<d.comments[i]>>
  ELSE LET j == IndexOfId(d.comments[i].replies, rq.replyId) IN
       IF j = 0 THEN <<>> ELSE <<d.comments[i].replies[j]>>

\* C19: a delete of an existing comment or reply by an identity other than
\* the one stored in that comment or reply is answered 403 at once, with the
\* store and the cache unchanged and nothing emitted, also when the identity
\* owns the post; a delete by the identity stored in it goes on to the save,
\* whoever owns the post, and the save that the store accepts removes it.
SubdocOwnerOnly ==
  [][\A r \in Slots :
       LET rq == req[r]
           found == FindById(rq.postId)
       IN
       (/\ rq.kind \in {"delComment", "delReply"}
        /\ rq.pc \in {"find", "save"}
        /\ found # <<>>
        /\ Named(rq, found[1]) # <<>>
        /\ req'[r] # rq) =>
         IF rq.pc = "find" /\ Named(rq, found[1])[1].user # rq.user
         THEN /\ req'[r].pc = "done" /\ req'[r].status = 403
              /\ req'[r].emitted = <<>> /\ req'[r].trace = <<"resp">>
              /\ UNCHANGED <<posts, feedCache, pub>>
         ELSE IF rq.pc = "find"
         THEN req'[r].pc = "save" /\ req'[r].status = 0
         ELSE req'[r].status # 500 =>
                Named(rq, CHOOSE d \in posts' : d._id = rq.postId) = <<>>]_vars

\* the owner of the post was answered 403 when deleting the comment of
\* another identity, and the comment is stored
SubdocOwnerOnlyWitness ==
  \E r \in Slots :
    /\ req[r].kind = "delComment" /\ req[r].pc = "done" /\ req[r].status = 403
    /\ \E d \in posts :
         /\ d._id = req[r].postId /\ d.user = req[r].user
         /\ Named(req[r], d) # <<>>
         /\ Named(req[r], d)[1].user # req[r].user

\* what request rq names is not in the store: the post (found is empty), the
\* comment of an add reply, delete comment or delete reply, or the reply of a
\* delete reply
Missing(rq, found) ==
  \/ found = <<>>
  \/ /\ rq.kind \in {"addReply", "delComment", "delReply"}
     /\ IndexOfId(found[1].comments, rq.commentId) = 0
  \/ /\ rq.kind = "delReply"
     /\ LET i == IndexOfId(found[1].comments, rq.commentId) IN
        IndexOfId(found[1].comments[i].replies, rq.replyId) = 0

\* C20: a mutation that names a post, comment or reply that is not in the
\* store is answered 404 as soon as findById has answered, whoever sends it
\* (never 403), with the store and the cache unchanged and nothing emitted.
MissingIs404 ==
  [][\A r \in Slots :
       LET rq == req[r]
           found == FindById(rq.postId)
       IN
       (/\ rq.kind \in ContentKinds \ {"create"}
        /\ rq.pc = "find"
        /\ Missing(rq, found)
        /\ req'[r] # rq) =>
         /\ req'[r].pc = "done" /\ req'[r].status = 404
         /\ req'[r].body.message \in
              {"Post not found", "Comment not found", "Reply not found"}
         /\ req'[r].emitted = <<>> /\ req'[r].trace = <<"resp">>
         /\ UNCHANGED <<posts, feedCache, pub>>]_vars

\* a delete of the post by an identity that did not own it was answered 404
\* once the post was gone
MissingIs404Witness ==
  \E r \in Slots :
    /\ req[r].kind = "delete" /\ req[r].pc = "done" /\ req[r].status = 404
    /\ req[r].postId = SeedPost._id /\ req[r].user # SeedPost.user
    /\ posts = {}

\* a finished feed read of slot r whose payload was assembled from the store
FeedAssembled(r) ==
  FeedReturned(r) /\ \A k \in 1..Len(req[r].trace) : req[r].trace[k] # "hit"

\* C21: once a feed read has assembled its payload with the profile of an
\* identity obtained from the user service, the profile cache holds an entry
\* for that identity (so that the next assembly need not ask again).
ProfileCachedAfterLookup ==
  \A r \in Slots :
    FeedAssembled(r) =>
      \A i \in 1..Len(req[r].body.data) :
        LET e == req[r].body.data[i] IN
        e.user.kind = "profile" => userCache[e.user._id] # <<>>

\* C22: a read of the posts of an owner that was assembled from the store
\* leaves its payload in a cache entry.
OwnerPayloadCached ==
  \A r \in Slots :
    (req[r].kind = "byOwner" /\ req[r].pc = "done" /\ req[r].status = 200) =>
      \E v \in Users :
        /\ feedCache[v] # <<>>
        /\ Parse(feedCache[v][1]) = req[r].body.data

\* the viewers with an entry in the feed namespace
FeedKeys == {v \in Users : feedCache[v] # <<>>}

\* C23: no step of a content mutation changes an entry of the profile
\* namespace, its clearCache lists every feed entry and deletes every entry it
\* listed; no step of a profile edit by an identity changes the profile entry
\* of another identity, and its del removes the entry of the editor.
CacheFrames ==
  [][\A r \in Slots :
       req'[r] # req[r] =>
         /\ req[r].kind \in ContentKinds =>
              /\ userCache' = userCache
              /\ (req[r].pc = "keys" /\ FeedKeys # {}) =>
                   req'[r].pc = "del" /\ req'[r].keys = FeedKeys
              /\ req[r].pc = "del" =>
                   /\ req[r].keys # {}
                   /\ \A v \in req[r].keys : feedCache'[v] = <<>>
         /\ req[r].kind = "profileEdit" =>
              /\ \A u \in Users \ {req[r].user} : userCache'[u] = userCache[u]
              /\ req[r].pc = "pdelUser" => userCache'[req[r].user] = <<>>]_vars

\* the clearCache of a like has listed the feed entries a feed read left and
\* is about to delete them, while a profile read has left a profile entry
CacheFramesWitness ==
  \E r \in Slots :
    /\ req[r].kind = "like" /\ req[r].pc = "del"
    /\ req[r].keys = FeedKeys /\ FeedKeys # {}
    /\ \E u \in Users : userCache[u] # <<>>

\* C24: the payload of every feed read and of every read of the posts of an
\* owner that was assembled from the store lists the posts newest first: no
\* entry is followed by one created later.
NewestFirst ==
  \A r \in Slots :
    (ReadReturned(r) /\ \A k \in 1..Len(req[r].trace) : req[r].trace[k] # "hit") =>
      \A i, j \in 1..Len(req[r].body.data) :
        i < j => req[r].body.data[i].createdAt >= req[r].body.data[j].createdAt

\* a read assembled from the store returned the seeded post and a post
\* created after it
NewestFirstWitness ==
  \E r \in Slots :
    /\ ReadReturned(r) /\ \A k \in 1..Len(req[r].trace) : req[r].trace[k] # "hit"
    /\ Len(req[r].body.data) = 2
    /\ req[r].body.data[2]._id = SeedPost._id

\* the like list a like or unlike request carries to its event and response
\* once its write is acknowledged
CarriedLikes(q) == IF q.pc = "done" THEN q.emitted[1].data ELSE q.doc[1].likes

\* C25: when the store acknowledges the write of a like or an unlike, the
\* identities in the like list the request goes on to emit are those the store
\* then holds for the post; a response sent in that same step carries their
\* number.
LikeEventMatchesStore ==
  [][\A r \in Slots :
       (/\ req[r].kind \in {"like", "unlike"} /\ req[r].pc = "save"
        /\ req'[r] # req[r] /\ req'[r].status # 500) =>
         LET stored == SeqToSet(LikesIn(posts', req[r].postId)) IN
         /\ SeqToSet(CarriedLikes(req'[r])) = stored
         /\ req'[r].pc = "done" => req'[r].body.data = <<Cardinality(stored)>>]_vars

\* C26: no step of an update request changes, in the post it names, the
\* owner, the likes, the comments and replies, the creation time, or a field
\* among text, image and youtubeUrl that the request did not supply; and only
\* a request of the owner changes the post at all.
UpdateFrames ==
  [][\A r \in Slots :
       (req[r].kind = "update" /\ req'[r] # req[r]) =>
         \A d \in posts :
           d._id = req[r].postId =>
             \E n \in posts' :
               /\ n._id = d._id
               /\ n.user = d.user
               /\ n.likes = d.likes
               /\ n.comments = d.comments
               /\ n.createdAt = d.createdAt
               /\ req[r].text = Undef => n.text = d.text
               /\ req[r].image = Undef => n.image = d.image
               /\ req[r].youtubeUrl = Undef => n.youtubeUrl = d.youtubeUrl
               /\ n # d => d.user = req[r].user]_vars

\* an update that supplied a video link and no image was answered 200: the
\* post has the link and still has the image and a like it had before
UpdateFramesWitness ==
  \E r \in Slots :
    /\ req[r].kind = "update" /\ req[r].pc = "done" /\ req[r].status = 200
    /\ req[r].image = Undef /\ req[r].youtubeUrl = "watch?v=A"
    /\ \E d \in posts :
         /\ d._id = req[r].postId
         /\ d.image = "img"
         /\ d.youtubeUrl # Null
         /\ d.likes # <<>>

\* the posts a page shows before the comment c of an event reaches it
ViewWithout(c) ==
  [i \in 1..Len(SortDesc(posts)) |->
     [ToObject(SortDesc(posts)[i]) EXCEPT !.comments = RemoveId(@, c._id)]]

\* C27: an add comment answered 201 has emitted exactly one event, a
\* comment:added that names the post and carries a comment with the text of
\* the request and, as its user, the profile of the author or the placeholder
\* with the author's identity; a page that applies the event to the posts it
\* holds shows the comment once, under the post, and changes no other post.
CommentDelivered ==
  \A r \in Slots :
    (req[r].kind = "addComment" /\ req[r].pc = "done" /\ req[r].status = 201) =>
      /\ Len(req[r].emitted) = 1
      /\ LET ev == req[r].emitted[1]
             c == ev.data[1]
             before == ViewWithout(c)
             after == OnCommentAdded(before, ev)
         IN
         /\ ev.type = "comment:added"
         /\ ev.postId = req[r].postId
         /\ Len(ev.data) = 1
         /\ c.text = req[r].text
         /\ c.user \in {ProfileOf(req[r].user), PlaceholderUser(req[r].user)}
         /\ \A i \in 1..Len(before) :
              IF before[i]._id = ev.postId
              THEN /\ after[i].comments = Append(before[i].comments, c)
                   /\ Len(SelectSeq(after[i].comments, LAMBDA k : k._id = c._id)) = 1
              ELSE after[i] = before[i]

\* an add comment was answered 201 although the lookup of the author's
\* profile failed, while the commented post is in the store
CommentDeliveredWitness ==
  \E r \in Slots :
    /\ req[r].kind = "addComment" /\ req[r].pc = "done" /\ req[r].status = 201
    /\ req[r].emitted[1].data[1].user = PlaceholderUser(req[r].user)
    /\ req[r].postId \in PostIds

\* what a write leaves of a document apart from its version counters
Content(d) ==
  <<d._id, d.user, d.text, d.image, d.youtubeUrl, d.likes, d.comments,
    d.createdAt>>

\* C28: a step changes or removes a stored post only when it is the store's
\* answer to the write of a mutation that names that post, and adds none; and
\* when the post is as the mutation loaded it, whatever happened to other
\* posts meanwhile, the write is acknowledged and leaves the post as the
\* mutation alone makes it (a delete leaves it out).
ItemsIndependent ==
  [][/\ \A d \in posts :
          d \notin posts' =>
            \E r \in Slots :
              /\ req'[r] # req[r]
              /\ req[r].kind \in ContentKinds /\ req[r].pc = "save"
              /\ req[r].postId = d._id
     /\ \A n \in posts' : n \in posts \/ \E d \in posts : d._id = n._id
     /\ \A r \in Slots :
          (/\ req'[r] # req[r]
           /\ req[r].kind \in ContentKinds /\ req[r].pc = "save"
           /\ \E d \in posts : d._id = req[r].postId /\ d.rev = req[r].doc[1].rev) =>
            /\ req'[r].status # 500
            /\ IF req[r].kind = "delete"
               THEN \A n \in posts' : n._id # req[r].postId
               ELSE \E n \in posts' : Content(n) = Content(req[r].doc[1])]_vars

\* a like of the seeded post was answered while an update of the second post
\* was between its write and its event: the store holds the like and the new
\* text
ItemsIndependentWitness ==
  \E r, q \in Slots :
    /\ req[r].kind = "like" /\ req[r].pc = "done" /\ req[r].status = 200
    /\ req[r].postId = SeedPost._id
    /\ req[q].kind = "update" /\ req[q].pc = "lookup" /\ req[q].wrote # 0
    /\ req[q].postId = SecondPost._id
    /\ \E d \in posts : d._id = SeedPost._id /\ d.likes # <<>>
    /\ \E d \in posts : d._id = SecondPost._id /\ d.text = "b"

\* C29: no step of a feed read or of a read of the posts of an owner changes
\* the store or the published revisions or emits an event, for itself or for
\* another request; a request that gets an event emitted is a mutation.
ReadsInert ==
  [][\A r \in Slots :
       /\ (req[r].kind \in ReadKinds /\ req'[r] # req[r]) =>
            /\ posts' = posts
            /\ pub' = pub
            /\ \A q \in Slots : req'[q].emitted = IF q = r THEN <<>> ELSE req[q].emitted
       /\ (req'[r].emitted # <<>> /\ req'[r].emitted # req[r].emitted) =>
            req[r].kind \in ContentKinds]_vars

\* a feed read was answered with a payload it assembled from the store and
\* wrote to the cache, and emitted nothing
ReadsInertWitness ==
  \E r \in Slots :
    /\ FeedAssembled(r)
    /\ req[r].body.data # <<>>
    /\ feedCache[req[r].user] # <<>>
    /\ req[r].emitted = <<>>

\* C30: a read of the own profile that arrives after an edit of that profile
\* was answered returns the edited name, and a feed read that arrives after
\* the edit was answered embeds the edited name wherever it embeds the
\* profile of the editor.
ProfileFresh ==
  \A r \in Slots :
    /\ (req[r].kind = "me" /\ req[r].pc = "done" /\ req[r].status = 200
        /\ req[r].user \in req[r].edited) =>
         req[r].body.data[1].firstName = profiles[req[r].user]
    /\ FeedReturned(r) =>
         \A i \in 1..Len(req[r].body.data) :
           LET e == req[r].body.data[i] IN
           (e.user.kind = "profile" /\ e.user._id \in req[r].edited) =>
             e.user.firstName = profiles[e.user._id]

\* C31: no step of a register request whose email had an account when it
\* arrived, or that lacks one of the four fields, changes the accounts, and
\* it is answered 400, with "User already exists" when all fields are given.
RegisterRejected ==
  [][\A r \in Slots :
       (/\ req'[r] # req[r]
        /\ req'[r].kind = "register"
        /\ FieldMissing(req'[r]) \/ req'[r].email \in req'[r].known) =>
         /\ accounts' = accounts
         /\ req'[r].pc = "done" =>
              /\ req'[r].status = 400
              /\ ~FieldMissing(req'[r]) =>
                   req'[r].body.message = "User already exists"]_vars

\* a register request for the email of an account that an earlier request of
\* the run created was answered 400 "User already exists"
RegisterRejectedWitness ==
  \E r \in Slots :
    /\ req[r].kind = "register" /\ req[r].pc = "done" /\ req[r].status = 400
    /\ req[r].body.message = "User already exists"
    /\ req[r].email = "e3"
    /\ Cardinality(accounts) = Cardinality(SeedAccounts) + 1

\* C32: when a mutation emits its event, no mutation of the same post whose
\* write the store acknowledged later has emitted its event already.
EventsInWriteOrder ==
  [][\A r \in Slots :
       (/\ req[r].kind \in ContentKinds
        /\ req[r].emitted = <<>> /\ req'[r].emitted # <<>>) =>
         LET id == req'[r].emitted[1].postId IN
         id \in DOMAIN pub => req[r].wrote >= pub[id]]_vars

\* what the claim compares of a post: id, text, the identities that like it,
\* and the ids and texts of its comments and of their replies
Visible(e) ==
  [_id |-> e._id, text |-> e.text, likes |-> SeqToSet(e.likes),
   comments |->
     [i \in 1..Len(e.comments) |->
        [_id |-> e.comments[i]._id, text |-> e.comments[i].text,
         replies |->
           [j \in 1..Len(e.comments[i].replies) |->
              [_id |-> e.comments[i].replies[j]._id,
               text |-> e.comments[i].replies[j].text]]]]]

\* no request is between its arrival and its response
Settled == \A r \in Slots : req[r].pc \in {"idle", "done"}

\* C33: whenever no request is in flight, the posts the connected feed page
\* holds after applying every event are the posts of the store, each once,
\* with the id, text, likes, comments and replies the store holds.
ViewMatchesStore ==
  (view.on /\ Settled) =>
    /\ Len(view.posts) = Cardinality(posts)
    /\ {Visible(view.posts[i]) : i \in 1..Len(view.posts)}
         = {Visible(d) : d \in posts}

\* C34: a post that is not in the store enters it only by the insert of a
\* create, never by the save of another mutation; a like, unlike, update, add
\* comment, add reply, delete comment or delete reply whose save finds the
\* post gone leaves the store as it is, is answered 500 and emits nothing.
DeleteIsFinal ==
  [][/\ \A n \in posts' :
          (n._id \notin PostIds) =>
            \E r \in Slots :
              req[r].kind = "create" /\ req[r].pc = "insert" /\ req'[r] # req[r]
     /\ \A r \in Slots :
          (/\ req'[r] # req[r]
           /\ req[r].kind \in ContentKinds \ {"create", "delete"}
           /\ req[r].pc = "save"
           /\ req[r].postId \notin PostIds) =>
            /\ posts' = posts
            /\ req'[r].pc = "done" /\ req'[r].status = 500
            /\ req'[r].emitted = <<>>]_vars

\* an add comment that loaded the post was answered 500 without an event
\* after the delete of the post was published
DeleteIsFinalWitness ==
  \E r \in Slots :
    /\ req[r].kind = "addComment" /\ req[r].pc = "done" /\ req[r].status = 500
    /\ req[r].emitted = <<>> /\ req[r].wrote = 0
    /\ req[r].postId \notin PostIds
    /\ req[r].postId \in DOMAIN pub /\ pub[req[r].postId] = DeletedRev

\* C35: a mutation whose write the store has acknowledged is answered 200 or
\* 201 with its event emitted, whether Redis is connected or not and whether
\* the calls of clearCache fail or not; it is never answered 500.
CacheNeverBlocks ==
  \A r \in Slots :
    (/\ req[r].kind \in ContentKinds /\ req[r].pc = "done"
     /\ \E k \in 1..Len(req[r].trace) : req[r].trace[k] = "write") =>
      /\ req[r].status \in {200, 201}
      /\ Len(req[r].emitted) = 1
      /\ req[r].wrote # 0

\* with Redis not connected a like was written, emitted and answered 200
CacheNeverBlocksWitness ==
  \E r \in Slots :
    /\ ~redisOpen
    /\ req[r].kind = "like" /\ req[r].pc = "done" /\ req[r].status = 200
    /\ req[r].emitted # <<>>
    /\ req[r].postId \in PostIds
    /\ req[r].user \in SeqToSet(LikesIn(posts, req[r].postId))

\* C36: every account of the auth service has a user with the same id in the
\* user service, once its register request is answered.
AccountsHaveProfiles ==
  \A a \in accounts :
    (\A r \in Slots : ~(req[r].pc = "rsync" /\ req[r].doc[1]._id = a._id)) =>
      a._id \in synced

\* C37: the youtubeUrl of every stored post is null or an embed link that
\* holds a video id and that validation maps to itself; a link in which no
\* video id is recognized is therefore never stored.
VideoCanonical ==
  \A d \in posts :
    \/ d.youtubeUrl = Null
    \/ /\ extractYouTubeId(d.youtubeUrl) # Null
       /\ d.youtubeUrl = "embed/" \o extractYouTubeId(d.youtubeUrl)
       /\ validatedYoutubeUrl(d.youtubeUrl) = d.youtubeUrl

\* an update that supplied a watch link was answered 200 and the post holds
\* the embed link of the video
VideoCanonicalWitness ==
  \E r \in Slots :
    /\ req[r].kind = "update" /\ req[r].pc = "done" /\ req[r].status = 200
    /\ req[r].youtubeUrl = "watch?v=A"
    /\ \E d \in posts : d._id = req[r].postId /\ d.youtubeUrl = "embed/A"

\* C38: when the store acknowledges the save of an update of a post that is
\* in the store, the request is not answered 500 and the post holds, in every
\* field the request supplied, the value of that request.
LastUpdateWins ==
  [][\A r \in Slots :
       (/\ req[r].kind = "update" /\ req[r].pc = "save"
        /\ req'[r] # req[r]
        /\ req[r].postId \in PostIds) =>
         /\ req'[r].status # 500
         /\ \A d \in posts' :
              d._id = req[r].postId =>
                /\ req[r].text # Undef => d.text = req[r].text
                /\ req[r].image # Undef => d.image = req[r].image
                /\ req[r].youtubeUrl # Undef =>
                     d.youtubeUrl = validatedYoutubeUrl(req[r].youtubeUrl)]_vars

\* the identifiers of a list of subdocuments, in the order of the list
IdsOf(s) == [i \in 1..Len(s) |-> s[i]._id]

NoRepeat(s) == \A i, j \in 1..Len(s) : s[i] = s[j] => i = j

\* new keeps the entries of old in their order, loses only entries named in
\* mayGo and gains only entries named in mayCome, after the ones it kept
Thread(old, new, mayGo, mayCome) ==
  LET surv == SelectSeq(old, LAMBDA id : id \in SeqToSet(new)) IN
  /\ NoRepeat(new)
  /\ Len(new) >= Len(surv)
  /\ SubSeq(new, 1, Len(surv)) = surv
  /\ SeqToSet(old) \ SeqToSet(new) \subseteq mayGo
  /\ \A k \in (Len(surv) + 1)..Len(new) : new[k] \in mayCome

\* the requests of a kind whose save on post p the store acknowledges in
\* this step
SavedNow(kind, p) ==
  {r \in Slots : /\ req[r].kind = kind /\ req[r].pc = "save"
                 /\ req[r].postId = p
                 /\ req'[r] # req[r] /\ req'[r].wrote # 0}

\* C39: in every step and for every post that stays in the store, the
\* comments keep their order and their identifiers stay distinct; a comment
\* leaves only by an acknowledged delete comment that names it and enters
\* only at the end, pushed by an acknowledged add comment, which always puts
\* its comment there; a comment that stays keeps its author and text, and its
\* replies obey the same rule with add reply and delete reply.
ThreadsKept ==
  [][\A d \in posts : \A n \in posts' :
       n._id = d._id =>
         LET addC == SavedNow("addComment", d._id)
             delC == SavedNow("delComment", d._id)
             addR == SavedNow("addReply", d._id)
             delR == SavedNow("delReply", d._id)
             pushedC(r) == req[r].doc[1].comments[Len(req[r].doc[1].comments)]
             pushedR(r) ==
               LET rs == req[r].doc[1].comments[
                           IndexOfId(req[r].doc[1].comments, req[r].commentId)].replies
               IN rs[Len(rs)]
         IN
         /\ Thread(IdsOf(d.comments), IdsOf(n.comments),
                   {req[r].commentId : r \in delC},
                   {pushedC(r)._id : r \in addC})
         /\ \A r \in addC : pushedC(r) \in SeqToSet(n.comments)
         /\ \A r \in addR :
              \E k \in 1..Len(n.comments) :
                /\ n.comments[k]._id = req[r].commentId
                /\ pushedR(r) \in SeqToSet(n.comments[k].replies)
         /\ \A i \in 1..Len(d.comments) : \A k \in 1..Len(n.comments) :
              n.comments[k]._id = d.comments[i]._id =>
                /\ n.comments[k].user = d.comments[i].user
                /\ n.comments[k].text = d.comments[i].text
                /\ Thread(IdsOf(d.comments[i].replies),
                          IdsOf(n.comments[k].replies),
                          {req[r].replyId :
                             r \in {x \in delR : req[x].commentId = d.comments[i]._id}},
                          {pushedR(r)._id :
                             r \in {x \in addR : req[x].commentId = d.comments[i]._id}})
                /\ \A j \in 1..Len(d.comments[i].replies) :
                     \A m \in 1..Len(n.comments[k].replies) :
                       n.comments[k].replies[m]._id = d.comments[i].replies[j]._id
                         => n.comments[k].replies[m] = d.comments[i].replies[j]]_vars

\* two add comment requests loaded the post with its one comment before
\* either was saved, and the post holds both new comments after it, in the
\* order of their saves
ThreadsKeptWitness ==
  \E r \in Slots : \E d \in posts :
    /\ req[r].kind = "addComment" /\ req[r].wrote # 0
    /\ req[r].status # 500 /\ req[r].doc # <<>>
    /\ req[r].postId = d._id
    /\ Len(req[r].doc[1].comments) = 2
    /\ Len(d.comments) = 3
    /\ NoRepeat(IdsOf(d.comments))
    /\ d.comments[3]._id = req[r].doc[1].comments[2]._id
    /\ d.comments[1]._id = req[r].doc[1].comments[1]._id

====
